---- MODULE Spec2Model ----
(***************************************************************************)
(* Workflow transition engine of raycast-jira-status-flow.                 *)
(*                                                                         *)
(* Three commands drive one issue through the fixed WORKFLOW:              *)
(*   "advance"    jira-advance-to-next-status.tsx, AdvanceStatus           *)
(*   "movetodone" jira-advance-to-next-status.tsx, MoveToDone              *)
(*   "board"      jira-workflow-status-board.tsx, WorkflowStatusBoard      *)
(* They share transitionIssue / autoFillDevDates (utils.ts) and the        *)
(* MissingFieldsForm (missing-fields-form).  The tracker is external: each *)
(* awaited call is one state in which the call is outstanding, and its     *)
(* result is chosen nondeterministically when it settles.                  *)
(***************************************************************************)
EXTENDS Integers, Sequences, FiniteSets, TLC

\* ------------------------------------------------------------------------
\* Workflow table (utils.ts)
\* ------------------------------------------------------------------------

\* null / undefined of a string.
None == "<none>"

\* null of a WorkflowStep.
NoStep == [status |-> None, emoji |-> None]

WORKFLOW ==
  << [status |-> "Waiting",     emoji |-> "clipboard"],
     [status |-> "Doing",       emoji |-> "hammer"],
     [status |-> "Integration", emoji |-> "link"],
     [status |-> "1ST REVIEW",  emoji |-> "eyes"],
     [status |-> "Testing",     emoji |-> "testtube"],
     [status |-> "2ND REVIEW",  emoji |-> "magnifier"],
     [status |-> "UAT",         emoji |-> "check"],
     [status |-> "Staging",     emoji |-> "rocket"],
     [status |-> "Regression",  emoji |-> "cycle"],
     [status |-> "Delivering",  emoji |-> "package"],
     [status |-> "Done",        emoji |-> "party"] >>

\* Status strings the tracker may report for an issue: the canonical names, the
\* legacy alias in two spellings, a padded lower-case spelling and a status
\* that is no stage of the workflow.
RawStatuses ==
  { WORKFLOW[i].status : i \in 1..Len(WORKFLOW) }
    \cup { "TO DO", "To Do", " doing ", "Blocked" }

\* String.prototype.trim over the strings of the model.
Trim(s) ==
  CASE s = " doing " -> "doing"
    [] s = " DOING " -> "DOING"
    [] s = " To Do " -> "To Do"
    [] s = " TO DO " -> "TO DO"
    [] s = "  "      -> ""
    [] OTHER -> s

\* String.prototype.toUpperCase over the strings of the model.
ToUpperCase(s) ==
  CASE s = "Waiting"     -> "WAITING"
    [] s = "Doing"       -> "DOING"
    [] s = "doing"       -> "DOING"
    [] s = " doing "     -> " DOING "
    [] s = "Integration" -> "INTEGRATION"
    [] s = "Testing"     -> "TESTING"
    [] s = "Staging"     -> "STAGING"
    [] s = "Regression"  -> "REGRESSION"
    [] s = "Delivering"  -> "DELIVERING"
    [] s = "Done"        -> "DONE"
    [] s = "To Do"       -> "TO DO"
    [] s = "to do"       -> "TO DO"
    [] s = " To Do "     -> " TO DO "
    [] s = "waiting"     -> "WAITING"
    [] s = "done"        -> "DONE"
    [] s = "Blocked"     -> "BLOCKED"
    [] s = "Cancel"      -> "CANCEL"
    [] OTHER -> s

STATUS_ALIASES_Chained ==
  [a \in {"TO DO", "BLOCKED"} |-> IF a = "BLOCKED" THEN "TO DO" ELSE "WAITING"]

\* STATUS_ALIASES: alias spelling (upper case) -> canonical (upper case).
STATUS_ALIASES == [a \in {"TO DO"} |-> "WAITING"]

\* STATUS_FALLBACKS, built from STATUS_ALIASES at module load: canonical
\* (upper case) -> the alias labels, in table order.
STATUS_FALLBACKS == [c \in {"WAITING"} |-> << "TO DO" >>]

normalizeStatusNoAlias(status) == ToUpperCase(Trim(status))

normalizeStatus(status) ==
  LET upper == ToUpperCase(Trim(status))
  IN  IF upper \in DOMAIN STATUS_ALIASES THEN STATUS_ALIASES[upper] ELSE upper

getWorkflowIndexExactSpelling(status) ==
  LET hits == { i \in 1..Len(WORKFLOW) : WORKFLOW[i].status = status }
  IN  IF hits = {} THEN -1
      ELSE (CHOOSE i \in hits : \A j \in hits : i <= j) - 1

\* Array.prototype.findIndex, 0-based, -1 when no element matches.
getWorkflowIndex(status) ==
  LET hits == { i \in 1..Len(WORKFLOW) :
                  normalizeStatus(WORKFLOW[i].status) = normalizeStatus(status) }
  IN  IF hits = {} THEN -1
      ELSE (CHOOSE i \in hits : \A j \in hits : i <= j) - 1

getNextStatus(currentStatus) ==
  LET idx == getWorkflowIndex(currentStatus)
  IN  IF idx = -1 \/ idx >= Len(WORKFLOW) - 1 THEN NoStep ELSE WORKFLOW[idx + 2]

getPreviousStatusSkipping(currentStatus) ==
  LET idx == getWorkflowIndex(currentStatus)
  IN  IF idx <= 1 THEN NoStep ELSE WORKFLOW[idx - 1]

getPreviousStatus(currentStatus) ==
  LET idx == getWorkflowIndex(currentStatus)
  IN  IF idx <= 0 THEN NoStep ELSE WORKFLOW[idx]

getRemainingStepsFromCurrent(currentStatus) ==
  LET idx == getWorkflowIndex(currentStatus)
  IN  IF idx = -1 THEN << >> ELSE SubSeq(WORKFLOW, idx + 1, Len(WORKFLOW))

getRemainingSteps(currentStatus) ==
  LET idx == getWorkflowIndex(currentStatus)
  IN  IF idx = -1 THEN << >> ELSE SubSeq(WORKFLOW, idx + 2, Len(WORKFLOW))

\* ------------------------------------------------------------------------
\* Category-specific workflow used by AdvanceStatus (getWorkflowForType and
\* isDocType are imported from utils but are not part of the sources at hand)
\* ------------------------------------------------------------------------

IssueTypes == { "Task", "Documentation" }

isDocType(type) == type = "Documentation"

DOC_WORKFLOW ==
  << WORKFLOW[1], WORKFLOW[2], WORKFLOW[4], WORKFLOW[11] >>

getWorkflowForType(type) == IF isDocType(type) THEN DOC_WORKFLOW ELSE WORKFLOW

getWorkflowIndexFor(status, type) ==
  LET wf   == getWorkflowForType(type)
      hits == { i \in 1..Len(wf) :
                  normalizeStatus(wf[i].status) = normalizeStatus(status) }
  IN  IF hits = {} THEN -1
      ELSE (CHOOSE i \in hits : \A j \in hits : i <= j) - 1

getNextStatusFor(status, type) ==
  LET wf  == getWorkflowForType(type)
      idx == getWorkflowIndexFor(status, type)
  IN  IF idx = -1 \/ idx >= Len(wf) - 1 THEN NoStep ELSE wf[idx + 2]

getPreviousStatusFor(status, type) ==
  LET wf  == getWorkflowForType(type)
      idx == getWorkflowIndexFor(status, type)
  IN  IF idx <= 0 THEN NoStep ELSE wf[idx]

\* ------------------------------------------------------------------------
\* Transition labels and rejection messages
\* ------------------------------------------------------------------------

\* A transition label is the text pfx ++ name.  No name of the model starts
\* with one of the prefixes, so two labels are the same text iff they are the
\* same record.
Lbl(pfx, name) == [pfx |-> pfx, name |-> name]

\* null of a label.
NoLabel == Lbl(None, None)

UpperPfx(pfx) ==
  CASE pfx = "Back to "   -> "BACK TO "
    [] pfx = "Return to " -> "RETURN TO "
    [] OTHER -> pfx

LabelUpper(l) == Lbl(UpperPfx(l.pfx), ToUpperCase(l.name))

\* t.toUpperCase().endsWith(target): the text ends with its name part, and
\* within the model no name is a proper suffix of another.
LabelEndsWith(l, target) == ToUpperCase(l.name) = target

\* The message of a rejected `jira issue move`, reduced to the two parts the
\* classifiers read: whether "Available states for issue K:" occurs and the
\* list after it, whether "fill in" occurs and the pieces after it.  A piece
\* "" is one that is empty once trimmed and stripped of dots.
Msg(marker, avail, fillIn, fill) ==
  [marker |-> marker, avail |-> avail, fillIn |-> fillIn, fill |-> fill]

MsgOther == Msg(FALSE, << >>, FALSE, << >>)

\* No error.
NoMsg == Msg(FALSE, << >>, FALSE, << None >>)

MissingLists == { << "Resolution" >>, << "" >> }

AvailLists(target) ==
  { << Lbl("", "Cancel") >>,
    << Lbl("Return to ", target), Lbl("", "Cancel") >>,
    << Lbl("Back to ", target), Lbl("Return to ", target) >>,
    << Lbl("", ToUpperCase(target)) >> }

\* What the tracker may answer to a move request aimed at `target`.
Rejections(target) ==
  { MsgOther }
    \cup { Msg(FALSE, << >>, TRUE, f) : f \in MissingLists }
    \cup { Msg(TRUE, a, FALSE, << >>) : a \in AvailLists(target) }
    \cup { Msg(TRUE, << Lbl("", "Cancel") >>, TRUE, << "Resolution" >>),
           Msg(TRUE, << Lbl("Return to ", target), Lbl("", "Cancel") >>, TRUE,
               << "Resolution" >>) }

\* tryMove resolves (ok) or throws an Error carrying msg.
Resolved    == [ok |-> TRUE,  msg |-> NoMsg]
Rejected(m) == [ok |-> FALSE, msg |-> m]

\* What it may answer to the requests that follow the primary one.
LaterRejections ==
  { MsgOther,
    Msg(FALSE, << >>, TRUE, << "Resolution" >>),
    Msg(TRUE, << Lbl("", "Cancel") >>, FALSE, << >>) }

MoveOutcomes(target, primary) ==
  { Resolved } \cup
  { Rejected(m) : m \in IF primary THEN Rejections(target) ELSE LaterRejections }

parseAvailableTransitions(errorMsg) ==
  IF ~errorMsg.marker THEN << >> ELSE errorMsg.avail

parseMissingFieldsFromError(errorMsg) ==
  IF ~errorMsg.fillIn THEN << >>
  ELSE SelectSeq(errorMsg.fill, LAMBDA s : s # "")

\* Array.prototype.find: the first element satisfying P, NoLabel when none does.
FindFirst(seq, P(_)) ==
  LET hits == { i \in 1..Len(seq) : P(seq[i]) }
  IN  IF hits = {} THEN NoLabel
      ELSE seq[CHOOSE i \in hits : \A j \in hits : i <= j]

findMatchingTransitionInListOrder(targetStatus, available) ==
  LET target == ToUpperCase(targetStatus)
  IN  FindFirst(available, LAMBDA t : LabelEndsWith(t, target))

findMatchingTransition(targetStatus, available) ==
  LET target == ToUpperCase(targetStatus)
      exact  == FindFirst(available, LAMBDA t : LabelUpper(t) = Lbl("", target))
      backTo == FindFirst(available, LAMBDA t : LabelUpper(t) = Lbl("BACK TO ", target))
      suffix == FindFirst(available,
                  LAMBDA t : LabelEndsWith(t, target) /\ LabelUpper(t) # Lbl("", target))
  IN  IF exact # NoLabel THEN exact
      ELSE IF backTo # NoLabel THEN backTo
      ELSE IF suffix # NoLabel THEN suffix
      ELSE NoLabel

\* ------------------------------------------------------------------------
\* transitionIssue (utils.ts): one call, stepped by the result of each tryMove
\* ------------------------------------------------------------------------

NoTI == [target |-> None, phase |-> "off", label |-> NoLabel, fbIdx |-> 0,
         primaryError |-> NoMsg]

FallbacksOfAnyStage(targetStatus) == << "TO DO" >>

\* STATUS_FALLBACKS[targetStatus.toUpperCase()] ?? []
FallbacksOf(targetStatus) ==
  IF ToUpperCase(targetStatus) \in DOMAIN STATUS_FALLBACKS
  THEN STATUS_FALLBACKS[ToUpperCase(targetStatus)] ELSE << >>

\* The frame when transitionIssue has issued its primary tryMove.
TIBegin(targetStatus) ==
  [target |-> targetStatus, phase |-> "primary", label |-> Lbl("", targetStatus),
   fbIdx |-> 0, primaryError |-> NoMsg]

TIPending(t) == [res |-> "pending", ti |-> t,    err |-> NoMsg]
TIReturn     == [res |-> "ok",      ti |-> NoTI, err |-> NoMsg]
TIThrow(e)   == [res |-> "throw",   ti |-> NoTI, err |-> e]

TIAfterPrimaryRejectNoFallbacks(t, errMsg) ==
  LET match == findMatchingTransition(t.target, parseAvailableTransitions(errMsg))
  IN  IF match # NoLabel
      THEN TIPending([t EXCEPT !.phase = "retry", !.label = match,
                               !.primaryError = errMsg])
      ELSE TIThrow(errMsg)

\* catch (primaryError): resolver match -> one retry; else tryFallbacks; else
\* rethrow primaryError.
TIAfterPrimaryReject(t, errMsg) ==
  LET available == parseAvailableTransitions(errMsg)
      match     == findMatchingTransition(t.target, available)
      fallbacks == FallbacksOf(t.target)
  IN  IF match # NoLabel
      THEN TIPending([t EXCEPT !.phase = "retry", !.label = match,
                               !.primaryError = errMsg])
      ELSE IF Len(fallbacks) > 0
      THEN TIPending([t EXCEPT !.phase = "fallback", !.fbIdx = 1,
                               !.label = Lbl("", fallbacks[1]),
                               !.primaryError = errMsg])
      ELSE TIThrow(errMsg)

TIAfterRetryRejectAgain(t, errMsg) == TIPending(t)

\* `await tryMove(ticketKey, match); return;` the retry's own error propagates.
TIAfterRetryReject(t, errMsg) == TIThrow(errMsg)

TIAfterFallbackRejectOwnError(t, errMsg) == TIThrow(errMsg)

\* tryFallbacks: catch { continue }, false after the last one, upon which
\* transitionIssue rethrows primaryError.
TIAfterFallbackReject(t, errMsg) ==
  LET fallbacks == FallbacksOf(t.target)
  IN  IF t.fbIdx < Len(fallbacks)
      THEN TIPending([t EXCEPT !.fbIdx = t.fbIdx + 1,
                               !.label = Lbl("", fallbacks[t.fbIdx + 1])])
      ELSE TIThrow(t.primaryError)

\* The call's next state once the outstanding tryMove settles with `outcome`.
transitionIssue(t, outcome) ==
  IF outcome.ok THEN TIReturn
  ELSE CASE t.phase = "primary"  -> TIAfterPrimaryReject(t, outcome.msg)
         [] t.phase = "retry"    -> TIAfterRetryReject(t, outcome.msg)
         [] t.phase = "fallback" -> TIAfterFallbackReject(t, outcome.msg)

\* ------------------------------------------------------------------------
\* autoFillDevDates (utils.ts)
\* ------------------------------------------------------------------------

DevFieldNames == { "Dev Start Date", "Dev Due Date",
                   "Planned Dev Start Date", "Planned Dev Due Date" }

\* getIssueRawFields yields a string or null (None) per field.
FieldValues == { None, "2024-01-01" }

RawFieldReads == [DevFieldNames -> FieldValues]

IsMissingAlways(v) == TRUE

\* `!raw[id]`: null and the empty string are falsy.
IsMissing(v) == v = None \/ v = ""

HasPlannedUnlessNull(v) == v # None

\* `if (planned)`
HasPlanned(v) == v # None /\ v # ""

\* The part of autoFillDevDates between the read and the write.
autoFillPlan(raw) ==
  LET startMissing == IsMissing(raw["Dev Start Date"])
      dueMissing   == IsMissing(raw["Dev Due Date"])
      plannedStart == raw["Planned Dev Start Date"]
      plannedDue   == raw["Planned Dev Due Date"]
      fillStart    == startMissing /\ HasPlanned(plannedStart)
      fillDue      == dueMissing /\ HasPlanned(plannedDue)
  IN  [ filled |->
          (IF fillStart THEN << "Dev Start Date" >> ELSE << >>)
            \o (IF fillDue THEN << "Dev Due Date" >> ELSE << >>),
        stillMissing |->
          (IF startMissing /\ ~fillStart THEN << "Dev Start Date" >> ELSE << >>)
            \o (IF dueMissing /\ ~fillDue THEN << "Dev Due Date" >> ELSE << >>),
        toFill |->
          [ n \in { m \in { "Dev Start Date" } : fillStart }
                    \cup { m \in { "Dev Due Date" } : fillDue }
              |-> IF n = "Dev Start Date" THEN plannedStart ELSE plannedDue ] ]

autoFillWritesAlways(plan) == << plan.toFill >>

\* `if (Object.keys(toFill).length > 0) await setIssueCustomFields(key, toFill)`:
\* the payloads of the writes the call issues.
autoFillWrites(plan) ==
  IF DOMAIN plan.toFill # {} THEN << plan.toFill >> ELSE << >>

\* ------------------------------------------------------------------------
\* State
\* ------------------------------------------------------------------------

\* ------------------------------------------------------------------------
\* The field catalog (utils.ts, resolveFieldId)
\* ------------------------------------------------------------------------

MaxCallers == 2

\* The asynchronous callers of resolveFieldId that may be in progress at once
\* (setIssueCustomFields of a form, getIssueFieldUser of an auto-assign).
Callers == 1..MaxCallers

\* FIELD_NAME_TO_ID: the four dev date fields.
FIELD_NAME_TO_ID ==
  [n \in { "Dev Start Date", "Dev Due Date", "Planned Dev Start Date",
           "Planned Dev Due Date" } |->
     CASE n = "Dev Start Date"         -> "customfield_10101"
       [] n = "Dev Due Date"           -> "customfield_10102"
       [] n = "Planned Dev Start Date" -> "customfield_10103"
       [] OTHER                        -> "customfield_10104"]

\* The names callers ask for: one of the built-in table, the two role fields,
\* and a field of a missing-field form.
ResolveNames == { "Dev Start Date", "QA", "Development Reviewer", "Resolution" }

\* The id the tracker's catalog gives a field.
CatalogId(name) ==
  CASE name = "QA"                   -> "customfield_20001"
    [] name = "Development Reviewer" -> "customfield_20002"
    [] OTHER                         -> "resolution"

\* What GET /rest/api/2/field may answer: the names of the fields it lists.
Catalogs == { { "QA", "Development Reviewer", "Resolution" }, { "Resolution" } }

\* cachedFieldMap = null
NullFieldMap == [isNull |-> TRUE, ids |-> [n \in ResolveNames |-> None]]

\* cachedFieldMap = {} followed by cachedFieldMap[f.name] = f.id for the
\* fields listed; the empty set gives the {} of the catch.
BuiltFieldMap(listed) ==
  [isNull |-> FALSE,
   ids |-> [n \in ResolveNames |-> IF n \in listed THEN CatalogId(n) ELSE None]]

\* No resolveFieldId call of this caller is in progress.
NoResolve == [pc |-> "idle", name |-> None, result |-> None]

\* ------------------------------------------------------------------------
\* Invocations of the single-step advance that overlap
\* ------------------------------------------------------------------------

MaxInvocations == 2

Invocations == 1..MaxInvocations

\* advance was not invoked: `from` is the issue its closure captured, `next`
\* the step it computed from it, `ti` its transitionIssue call, `requests`
\* its move requests not yet answered, `ok` whether its transition was
\* confirmed, `during` the invocations that were unfinished when it was
\* invoked (observation only).
NoInvocation ==
  [pc |-> "none", from |-> [status |-> None, type |-> None],
   next |-> NoStep,
   ti |-> [target |-> None, phase |-> "off", label |-> NoLabel, fbIdx |-> 0,
           primaryError |-> NoMsg],
   requests |-> 0, ok |-> FALSE, during |-> {}]

VARIABLES
  cmd,           \* the command that was launched
  mounted,       \* the command's view is mounted (user intents are possible)
  abortRef,      \* MoveToDone: abortRef.current
  loading,       \* load() is in flight (the `loading` state)
  loadError,     \* the `error` state is set
  issue,         \* the local replica: [status, type], NoIssue when null / not listed
  done,          \* AdvanceStatus: the `done` state
  transition,    \* MoveToDone: the TransitionState
  toast,         \* the toast last shown by the running operation
  pc,            \* where the operation in progress is suspended
  op,            \* what the operation's closures captured, and its locals; its
                 \* fields lastConfirmed, fillerDone, stillMissing and supplied are
                 \* observation only
  ti,            \* the transitionIssue call in progress
  tiResult,      \* how the last transitionIssue call settled
  outstanding,   \* move requests sent to the tracker and not yet answered
  \* observation only (never read by the actions' guards or assignments)
  runConfirmed,  \* the stages confirmed in this invocation of the chain, in order
  stepRequests,  \* move requests sent by the transitionIssue call in progress / last settled
  stepLabels,    \* the labels of those requests, in order
  resumeAt,      \* the stage whose transition the tracker rejected, ending a chain's step
  chainConfirmed,\* the stages confirmed since the chain was first started, across resumptions
  runStart,      \* the status this invocation of the chain started from
  aborted,       \* the chain in progress left its loop through the abort check
  assignResult,  \* how the last autoAssignForStatus call settled
  \* the functions of utils.ts taken alone
  fnCall,        \* a call of one of the functions: its name and arguments
  fnResult,      \* what the call returned
  \* the field catalog of utils.ts taken alone
  cachedFieldMap,  \* the module-level `cachedFieldMap`
  resolveCalls,    \* the resolveFieldId calls in progress, one per caller
  catalogRequests, \* observation only: requests for the tracker's field catalog so far
  \* single-step advances invoked without waiting for one another
  advanceCalls     \* the invocations of advance on the issue, one record each

vars == << cmd, mounted, abortRef, loading, loadError, issue, done, transition,
           toast, pc, op, ti, tiResult, outstanding,
           runConfirmed, stepRequests, stepLabels, resumeAt, chainConfirmed,
           runStart, aborted, assignResult, fnCall, fnResult,
          cachedFieldMap, resolveCalls, catalogRequests, advanceCalls >>

Commands == { "advance", "movetodone", "board" }

NoIssue == [status |-> None, type |-> None]

Idle == [phase |-> "idle", currentTransition |-> << >>, completedSteps |-> << >>,
         totalSteps |-> 0, failedAt |-> None]

RunningTotalLeft(from, to, completed, total) ==
  [Idle EXCEPT !.phase = "running", !.currentTransition = << from, to >>,
               !.completedSteps = completed, !.totalSteps = total - Len(completed)]

Running(from, to, completed, total) ==
  [Idle EXCEPT !.phase = "running", !.currentTransition = << from, to >>,
               !.completedSteps = completed, !.totalSteps = total]

PhaseDone == [Idle EXCEPT !.phase = "done"]

\* (the message text of the error phase is not kept)
PhaseError(failedAt, completed) ==
  [Idle EXCEPT !.phase = "error", !.failedAt = failedAt,
               !.completedSteps = completed]

NoToast == [style |-> "none", title |-> None, stage |-> None]
Toast(style, title, stage) == [style |-> style, title |-> title, stage |-> stage]

NoOp == [kind |-> "none", issueData |-> NoIssue, target |-> NoStep, stepIdx |-> 0,
         currentStatus |-> None, completedSteps |-> << >>, resumeIssue |-> NoIssue,
         missingFields |-> << >>, onComplete |-> None, values |-> {},
         \* the targetStatus autoAssignForStatus was last called with
         assignFor |-> None,
         \* the stage of the last transition the tracker confirmed within this operation
         lastConfirmed |-> None,
         \* autoFillDevDates has settled within this operation
         fillerDone |-> FALSE,
         \* what autoFillDevDates reported as stillMissing to the gate
         stillMissing |-> << >>,
         \* the field names whose values the form wrote within this operation
         supplied |-> {},
         \* autoFillDevDates threw within this invocation of the gate
         gateFailed |-> FALSE,
         \* how often this invocation of the gate has started its action
         gateRuns |-> 0]

NoResult == [ok |-> FALSE, msg |-> NoMsg]

NoRaw == [n \in DevFieldNames |-> None]

NoEnv == [fieldId |-> None, fieldUser |-> None, pref |-> "", found |-> << >>,
          fail |-> None]

\* No function call is being looked at.
NoCall == [fn |-> "none", status |-> None, raw |-> NoRaw, target |-> None,
           available |-> << >>, env |-> NoEnv,
           fields |-> << >>, listed |-> {}, putOk |-> TRUE]

NoSetFields == [threw |-> FALSE, puts |-> << >>, resolved |-> << >>]

NoAssign == [assigned |-> FALSE, user |-> None, calls |-> << >>, threw |-> FALSE]

NoFnResult == [fn |-> "none", norm |-> None, idx |-> -1, next |-> NoStep,
               prev |-> NoStep, remaining |-> << >>, round |-> NoStep,
               filled |-> << >>, stillMissing |-> << >>, writes |-> << >>,
               label |-> NoLabel, assign |-> NoAssign, setFields |-> NoSetFields]

\* `${step.emoji} ${step.status}`
StepText(step) == << step.emoji, step.status >>

\* The state of a command after construction.
ProgramInit ==
  /\ cmd \in Commands
  /\ mounted = TRUE
  /\ abortRef = FALSE
  /\ loading = TRUE
  /\ loadError = FALSE
  /\ issue = NoIssue
  /\ done = FALSE
  /\ transition = Idle
  /\ toast = NoToast
  /\ pc = "idle"
  /\ op = NoOp
  /\ ti = NoTI
  /\ tiResult = NoResult
  /\ outstanding = 0
  /\ runConfirmed = << >>
  /\ stepRequests = 0
  /\ stepLabels = << >>
  /\ resumeAt = None
  /\ chainConfirmed = << >>
  /\ runStart = None
  /\ aborted = FALSE
  /\ assignResult = None
  /\ cachedFieldMap = NullFieldMap
  /\ resolveCalls = [c \in Callers |-> NoResolve]
  /\ catalogRequests = 0
  /\ advanceCalls = [i \in Invocations |-> NoInvocation]

Init ==
  /\ ProgramInit
  /\ fnCall = NoCall
  /\ fnResult = NoFnResult

\* ------------------------------------------------------------------------
\* load (all three commands) and unmount
\* ------------------------------------------------------------------------

\* The longest chain a fetched issue of the MoveToDone command has before it.
MaxChain == 3

\* What getIssueDetails / getMyInProgressIssues may report for the issue.
Fetchable ==
  CASE cmd = "board" ->
         { NoIssue } \cup
         { [status |-> s, type |-> "Task"] : s \in RawStatuses \ { "Done", "Blocked" } }
    [] cmd = "movetodone" ->
         { [status |-> s, type |-> t] :
             s \in { r \in RawStatuses : Len(getRemainingSteps(r)) <= MaxChain },
             t \in IssueTypes }
    [] OTHER ->
         { [status |-> s, type |-> t] : s \in RawStatuses, t \in IssueTypes }

\* setIssue((prev) => (prev ? { ...prev, status } : prev)) and the board's
\* setIssues((prev) => prev.map(...)).
SetStatus(i, status) == IF i = NoIssue THEN i ELSE [i EXCEPT !.status = status]

\* What is remembered of the last chain is dropped.
RunForgotten ==
  /\ resumeAt' = None
  /\ runConfirmed' = << >>
  /\ chainConfirmed' = << >>
  /\ runStart' = None

\* The handler that awaited transitionIssue has taken its result.
ResultConsumed ==
  /\ tiResult' = NoResult
  /\ stepRequests' = 0
  /\ stepLabels' = << >>

\* Reload / Retry / Refresh: load() up to its first await (asked for while no
\* operation is in progress).
LoadStart ==
  /\ mounted /\ ~loading /\ pc = "idle"
  /\ loading' = TRUE
  /\ loadError' = IF cmd = "board" THEN loadError ELSE FALSE
  /\ abortRef' = IF cmd = "movetodone" THEN FALSE ELSE abortRef
  /\ UNCHANGED << cmd, mounted, issue, done, transition, toast, pc, op, ti,
                  tiResult, outstanding, runConfirmed, stepRequests,
                  stepLabels, resumeAt, chainConfirmed, runStart, aborted,
                  assignResult, fnCall, fnResult, cachedFieldMap, resolveCalls,
                  catalogRequests, advanceCalls >>

\* The fetch settles: setIssue(details) / setIssues(fetched), or the catch.
LoadSettles ==
  /\ loading
  /\ loading' = FALSE
  /\ \/ \E got \in Fetchable :
          /\ issue' = got
          /\ RunForgotten
          /\ loadError' = loadError
     \/ /\ loadError' = (cmd # "board")
        /\ UNCHANGED << issue, resumeAt, runConfirmed, chainConfirmed, runStart >>
  /\ UNCHANGED << cmd, mounted, abortRef, done, transition, toast, pc, op, ti,
                  tiResult, outstanding, stepRequests, stepLabels, aborted,
                  assignResult, fnCall, fnResult, cachedFieldMap, resolveCalls,
                  catalogRequests, advanceCalls >>

\* MoveToDone's effect cleanup: abortRef.current = true.
Unmount ==
  /\ cmd = "movetodone" /\ mounted
  /\ mounted' = FALSE
  /\ abortRef' = TRUE
  /\ UNCHANGED << cmd, loading, loadError, issue, done, transition, toast, pc,
                  op, ti, tiResult, outstanding, runConfirmed, stepRequests,
                  stepLabels, resumeAt, chainConfirmed, runStart, aborted,
                  assignResult, fnCall, fnResult, cachedFieldMap, resolveCalls,
                  catalogRequests, advanceCalls >>

\* The view offers the issue's actions: not the loading or the error page
\* (on the board, intents are taken while no refresh is in flight).
ViewReady ==
  /\ mounted
  /\ issue # NoIssue
  /\ ~loading /\ ~loadError

\* ------------------------------------------------------------------------
\* transitionIssue in progress
\* ------------------------------------------------------------------------

\* `await transitionIssue(key, targetStatus)` up to its primary tryMove.
BeginTransitionIssue(targetStatus) ==
  /\ ti' = TIBegin(targetStatus)
  /\ outstanding' = outstanding + 1
  /\ stepRequests' = 1
  /\ stepLabels' = << Lbl("", targetStatus) >>
  /\ pc' = "move"

\* The tracker answers the outstanding move request; transitionIssue either
\* sends its next request or settles.
TryMoveSettles ==
  /\ pc = "move"
  /\ \E outcome \in MoveOutcomes(ti.target, ti.phase = "primary") :
       LET r == transitionIssue(ti, outcome)
       IN  IF r.res = "pending"
           THEN /\ ti' = r.ti
                /\ stepRequests' = stepRequests + 1
                /\ stepLabels' = Append(stepLabels, r.ti.label)
                /\ UNCHANGED << pc, op, tiResult, outstanding,
                                runConfirmed, chainConfirmed, resumeAt >>
           ELSE /\ ti' = NoTI
                /\ pc' = "settled"
                /\ tiResult' = [ok |-> r.res = "ok", msg |-> r.err]
                /\ outstanding' = outstanding - 1
                /\ op' = IF r.res = "ok" THEN [op EXCEPT !.lastConfirmed = ti.target]
                         ELSE op
                /\ runConfirmed' = IF r.res = "ok" /\ op.kind = "run"
                                   THEN Append(runConfirmed, ti.target)
                                   ELSE runConfirmed
                /\ chainConfirmed' = IF r.res = "ok" /\ op.kind = "run"
                                     THEN Append(chainConfirmed, ti.target)
                                     ELSE chainConfirmed
                /\ resumeAt' = CASE op.kind # "run" -> resumeAt
                                  [] r.res = "ok"    -> None
                                  [] OTHER           -> ti.target
                /\ UNCHANGED << stepRequests, stepLabels >>
  /\ UNCHANGED << cmd, mounted, abortRef, loading, loadError, issue, done,
                  transition, toast, runStart, aborted, assignResult, fnCall,
                  fnResult, cachedFieldMap, resolveCalls, catalogRequests,
                  advanceCalls >>

\* ------------------------------------------------------------------------
\* The terminal-stage gate: autoFillDevDates, then the gated action
\* (advance lines 115-142, startMoveToDone lines 527-553, ensureDevDatesAndRun)
\* ------------------------------------------------------------------------

GateSuspendsNever(stillMissing) == FALSE

\* if (stillMissing.length > 0) push(<MissingFieldsForm ... />)
GateSuspends(stillMissing) == Len(stillMissing) > 0

OpenForm(o, missingFields, onComplete) ==
  /\ pc' = "form"
  /\ op' = [o EXCEPT !.missingFields = missingFields, !.onComplete = onComplete,
                     !.values = {}]

\* pop(): nothing of the form remains with the operation it resumes.
FormClosed(o) ==
  [o EXCEPT !.missingFields = << >>, !.onComplete = None, !.values = {},
            !.stillMissing = << >>, !.supplied = {}, !.resumeIssue = NoIssue]

\* autoFillDevDates returned { filled, stillMissing }.
GateReturned(filled, stillMissing) ==
  /\ toast' = Toast("hidden", IF Len(filled) > 0 THEN "Auto-filled dates"
                               ELSE "Checking required fields", None)
  /\ IF GateSuspends(stillMissing)
     THEN OpenForm([op EXCEPT !.fillerDone = TRUE, !.stillMissing = stillMissing],
                   stillMissing, "gated")
     ELSE /\ pc' = "gated"
          /\ op' = [op EXCEPT !.fillerDone = TRUE, !.stillMissing = stillMissing]

\* autoFillDevDates threw: "Auto-fill failed, continuing".
GateFailedStops ==
  /\ toast' = Toast("failure", "Auto-fill failed, continuing", None)
  /\ pc' = "idle"
  /\ op' = NoOp

GateFailed ==
  /\ toast' = Toast("failure", "Auto-fill failed, continuing", None)
  /\ pc' = "gated"
  /\ op' = [op EXCEPT !.fillerDone = TRUE, !.gateFailed = TRUE]

\* The gate calls its action: `await doTransition(issue, next)`,
\* `await runTransitionLoop(issue)`, `await action()`.
GateStarts(o) == [o EXCEPT !.gateRuns = o.gateRuns + 1]

\* getIssueRawFields settles: the plan is computed, and either the batched
\* write is sent or autoFillDevDates returns.
AutoFillReadSettles ==
  /\ pc = "autofillRead"
  /\ \/ GateFailed
     \/ \E raw \in RawFieldReads :
          LET plan == autoFillPlan(raw)
          IN  IF Len(autoFillWrites(plan)) > 0
              THEN /\ pc' = "autofillWrite"
                   /\ op' = [op EXCEPT !.missingFields = plan.stillMissing]
                   /\ toast' = toast
              ELSE GateReturned(plan.filled, plan.stillMissing)
  /\ UNCHANGED << cmd, mounted, abortRef, loading, loadError, issue, done,
                  transition, ti, tiResult, outstanding, runConfirmed,
                  stepRequests, stepLabels, resumeAt, chainConfirmed, runStart,
                  aborted, assignResult, fnCall, fnResult, cachedFieldMap,
                  resolveCalls, catalogRequests, advanceCalls >>

\* setIssueCustomFields(ticketKey, toFill) settles.
AutoFillWriteSettles ==
  /\ pc = "autofillWrite"
  /\ \/ GateReturned(<< "filled" >>, op.missingFields)
     \/ GateFailed
  /\ UNCHANGED << cmd, mounted, abortRef, loading, loadError, issue, done,
                  transition, ti, tiResult, outstanding, runConfirmed,
                  stepRequests, stepLabels, resumeAt, chainConfirmed, runStart,
                  aborted, assignResult, fnCall, fnResult, cachedFieldMap,
                  resolveCalls, catalogRequests, advanceCalls >>

\* ------------------------------------------------------------------------
\* MissingFieldsForm.handleSubmit
\* ------------------------------------------------------------------------

FieldSet(seq) == { seq[i] : i \in 1..Len(seq) }

\* Save & Continue: the values entered are collected; with none, "No values
\* provided"; otherwise setIssueCustomFields is sent.
FormSubmit ==
  /\ pc = "form" /\ mounted
  /\ \E values \in SUBSET FieldSet(op.missingFields) :
       IF values = {}
       THEN /\ toast' = Toast("failure", "No values provided", None)
            /\ UNCHANGED << pc, op >>
       ELSE /\ toast' = Toast("animated", "Setting fields", None)
            /\ pc' = "formWrite"
            /\ op' = [op EXCEPT !.values = values]
  /\ UNCHANGED << cmd, mounted, abortRef, loading, loadError, issue, done,
                  transition, ti, tiResult, outstanding, runConfirmed,
                  stepRequests, stepLabels, resumeAt, chainConfirmed, runStart,
                  aborted, assignResult, fnCall, fnResult, cachedFieldMap,
                  resolveCalls, catalogRequests, advanceCalls >>

\* The write settles: pop(); onComplete(), or the form stays for another try.
FormWriteSettlesResumesAnyway ==
  /\ pc = "formWrite"
  /\ \/ /\ toast' = Toast("success", "Fields updated", None)
        /\ op' = [op EXCEPT !.supplied = op.supplied \cup op.values]
        /\ pc' = IF op.onComplete = "gated" THEN "gated" ELSE "resume"
     \/ /\ toast' = Toast("failure", "Failed to set fields", None)
        /\ pc' = IF op.onComplete = "gated" THEN "gated" ELSE "resume"
        /\ op' = op
  /\ UNCHANGED << cmd, mounted, abortRef, loading, loadError, issue, done,
                  transition, ti, tiResult, outstanding, runConfirmed,
                  stepRequests, stepLabels, resumeAt, chainConfirmed, runStart,
                  aborted, assignResult, fnCall, fnResult, cachedFieldMap,
                  resolveCalls, catalogRequests, advanceCalls >>

FormWriteSettles ==
  /\ pc = "formWrite"
  /\ \/ /\ toast' = Toast("success", "Fields updated", None)
        /\ op' = [op EXCEPT !.supplied = op.supplied \cup op.values]
        /\ pc' = IF op.onComplete = "gated" THEN "gated" ELSE "resume"
     \/ /\ toast' = Toast("failure", "Failed to set fields", None)
        /\ pc' = "form"
        /\ op' = op
  /\ UNCHANGED << cmd, mounted, abortRef, loading, loadError, issue, done,
                  transition, ti, tiResult, outstanding, runConfirmed,
                  stepRequests, stepLabels, resumeAt, chainConfirmed, runStart,
                  aborted, assignResult, fnCall, fnResult, cachedFieldMap,
                  resolveCalls, catalogRequests, advanceCalls >>

\* The operator leaves the form without submitting; the suspended operation
\* is never resumed.
FormDismiss ==
  /\ pc = "form" /\ mounted
  /\ pc' = "idle"
  /\ op' = NoOp
  /\ UNCHANGED << cmd, mounted, abortRef, loading, loadError, issue, done,
                  transition, toast, ti, tiResult, outstanding, runConfirmed,
                  stepRequests, stepLabels, resumeAt, chainConfirmed, runStart,
                  aborted, assignResult, fnCall, fnResult, cachedFieldMap,
                  resolveCalls, catalogRequests, advanceCalls >>

\* A user intent starts a single-step operation.
OpStarts ==
  /\ aborted' = FALSE
  /\ assignResult' = None
  /\ RunForgotten

\* A user intent starts a chain (a fresh one unless it continues a stopped one).
ChainStarts ==
  /\ aborted' = FALSE
  /\ assignResult' = None
  /\ chainConfirmed' = IF resumeAt = None THEN << >> ELSE chainConfirmed

\* ------------------------------------------------------------------------
\* AdvanceStatus (jira-advance-to-next-status.tsx, lines 32-282)
\* ------------------------------------------------------------------------

AdvNeedsGateNever(next, type) == FALSE

\* advance: `next.status === "Done" && !isDocType(issue.type)`
AdvNeedsGate(next, type) == next.status = "Done" /\ ~isDocType(type)

\* doTransition's catch: the form when the message names missing fields.
RejectionSuspends(msg) == Len(parseMissingFieldsFromError(msg)) > 0

\* Advance to <next>: offered when !done && nextStep.
AdvAdvance ==
  /\ cmd = "advance" /\ ViewReady /\ pc = "idle"
  /\ ~done
  /\ LET next == getNextStatusFor(issue.status, issue.type)
     IN  /\ next # NoStep
         /\ op' = [NoOp EXCEPT !.kind = "advance", !.issueData = issue, !.target = next]
         /\ OpStarts
         /\ IF AdvNeedsGate(next, issue.type)
            THEN /\ pc' = "autofillRead"
                 /\ toast' = Toast("animated", "Checking required fields", None)
                 /\ UNCHANGED << ti, outstanding, stepRequests, stepLabels >>
            ELSE /\ BeginTransitionIssue(next.status)
                 /\ toast' = Toast("animated", "Moving", None)
  /\ UNCHANGED << cmd, mounted, abortRef, loading, loadError, issue, done,
                  transition, tiResult, fnCall, fnResult, cachedFieldMap,
                  resolveCalls, catalogRequests, advanceCalls >>

\* The gate lets advance through: `await doTransition(issue, next)`, also the
\* gate form's onComplete.
AdvGated ==
  /\ cmd = "advance" /\ pc = "gated"
  /\ BeginTransitionIssue(op.target.status)
  /\ op' = GateStarts(FormClosed(op))
  /\ toast' = Toast("animated", "Moving", None)
  /\ UNCHANGED << cmd, mounted, abortRef, loading, loadError, issue, done,
                  transition, tiResult, runConfirmed, resumeAt, chainConfirmed,
                  runStart, aborted, assignResult, fnCall, fnResult,
                  cachedFieldMap, resolveCalls, catalogRequests, advanceCalls >>

\* doTransition after `await transitionIssue(issueData.key, next.status)`.
AdvDoTransitionSettled ==
  /\ cmd = "advance" /\ pc = "settled" /\ op.kind = "advance"
  /\ IF tiResult.ok
     THEN /\ issue' = [op.issueData EXCEPT !.status = op.target.status]
          /\ done' = (op.target.status = "Done")
          /\ toast' = Toast("success", "advanced", None)
          /\ pc' = "idle"
          /\ op' = NoOp
     ELSE /\ UNCHANGED << issue, done >>
          /\ IF RejectionSuspends(tiResult.msg)
             THEN /\ toast' = Toast("hidden", "Transition failed", None)
                  /\ OpenForm(op, parseMissingFieldsFromError(tiResult.msg), "doTransition")
             ELSE /\ toast' = Toast("failure", "Transition failed", None)
                  /\ pc' = "idle"
                  /\ op' = NoOp
  /\ ResultConsumed
  /\ UNCHANGED << cmd, mounted, abortRef, loading, loadError, transition, ti,
                  outstanding, runConfirmed, resumeAt, chainConfirmed,
                  runStart, aborted, assignResult, fnCall, fnResult,
                  cachedFieldMap, resolveCalls, catalogRequests, advanceCalls >>

\* Move Back to <prev>: offered when prevStep.
AdvRegress ==
  /\ cmd = "advance" /\ ViewReady /\ pc = "idle"
  /\ LET prev == getPreviousStatusFor(issue.status, issue.type)
     IN  /\ prev # NoStep
         /\ op' = [NoOp EXCEPT !.kind = "regress", !.issueData = issue, !.target = prev]
         /\ OpStarts
         /\ BeginTransitionIssue(prev.status)
         /\ toast' = Toast("animated", "Moving back", None)
  /\ UNCHANGED << cmd, mounted, abortRef, loading, loadError, issue, done,
                  transition, tiResult, fnCall, fnResult, cachedFieldMap,
                  resolveCalls, catalogRequests, advanceCalls >>

\* regress after `await transitionIssue(issue.key, prev.status)`.
AdvRegressSettled ==
  /\ cmd = "advance" /\ pc = "settled" /\ op.kind = "regress"
  /\ IF tiResult.ok
     THEN /\ issue' = [op.issueData EXCEPT !.status = op.target.status]
          /\ done' = FALSE
          /\ toast' = Toast("success", "moved back", None)
     ELSE /\ UNCHANGED << issue, done >>
          /\ toast' = Toast("failure", "Transition failed", None)
  /\ pc' = "idle"
  /\ op' = NoOp
  /\ ResultConsumed
  /\ UNCHANGED << cmd, mounted, abortRef, loading, loadError, transition, ti,
                  outstanding, runConfirmed, resumeAt, chainConfirmed,
                  runStart, aborted, assignResult, fnCall, fnResult,
                  cachedFieldMap, resolveCalls, catalogRequests, advanceCalls >>

\* The form's onComplete after a rejected single step: the same transition
\* is attempted again (doTransition / doAdvance; the board's regressIssue
\* recomputes the same previous stage from the issue it captured).
ResumeSingleStep ==
  /\ pc = "resume" /\ op.onComplete \in { "doTransition", "regressIssue" }
  /\ BeginTransitionIssue(op.target.status)
  /\ op' = FormClosed(op)
  /\ toast' = Toast("animated", "Moving", None)
  /\ UNCHANGED << cmd, mounted, abortRef, loading, loadError, issue, done,
                  transition, tiResult, runConfirmed, resumeAt, chainConfirmed,
                  runStart, aborted, assignResult, fnCall, fnResult,
                  cachedFieldMap, resolveCalls, catalogRequests, advanceCalls >>

\* ------------------------------------------------------------------------
\* MoveToDone (jira-advance-to-next-status.tsx, lines 390-669)
\* ------------------------------------------------------------------------

isRunning == transition.phase = "running"
isDone    == transition.phase = "done" \/ issue.status = "Done"

StatusOnFailureRolledBack(o) == o.issueData.status

\* catch: `setIssue(prev => ({ ...prev, status: currentStatus }))`
StatusOnFailure(o) == o.currentStatus

ResumeIssueFromStart(o) == o.issueData

\* `const resumeIssue = { ...issueData, status: currentStatus }`
ResumeIssueOf(o) == [o.issueData EXCEPT !.status = o.currentStatus]

NextStepIdxRepeating(o) == o.stepIdx

\* The position of the next step of `for (const step of remaining)`.
NextStepIdx(o) == o.stepIdx + 1

\* Move to Done: startMoveToDone up to its first await.
MtdStart ==
  /\ cmd = "movetodone" /\ ViewReady /\ pc = "idle"
  /\ ~isDone /\ ~isRunning
  /\ LET remaining == getRemainingSteps(issue.status)
     IN  IF Len(remaining) = 0
         THEN /\ toast' = Toast("success", "is already Done", None)
              /\ UNCHANGED << pc, op >>
         ELSE /\ op' = [NoOp EXCEPT !.kind = "run", !.issueData = issue]
              /\ IF Len(remaining) > 1
                 THEN pc' = "confirm" /\ toast' = toast
                 ELSE /\ pc' = "autofillRead"
                      /\ toast' = Toast("animated", "Checking required fields", None)
  /\ ChainStarts
  /\ UNCHANGED << cmd, mounted, abortRef, loading, loadError, issue, done,
                  transition, ti, tiResult, outstanding, runConfirmed,
                  stepRequests, stepLabels, resumeAt, runStart, fnCall,
                  fnResult, cachedFieldMap, resolveCalls, catalogRequests,
                  advanceCalls >>

\* confirmAlert settles.
MtdConfirm ==
  /\ cmd = "movetodone" /\ pc = "confirm"
  /\ \/ /\ pc' = "autofillRead"
        /\ toast' = Toast("animated", "Checking required fields", None)
        /\ op' = op
     \/ /\ pc' = "idle"
        /\ op' = NoOp
        /\ toast' = toast
  /\ UNCHANGED << cmd, mounted, abortRef, loading, loadError, issue, done,
                  transition, ti, tiResult, outstanding, runConfirmed,
                  stepRequests, stepLabels, resumeAt, chainConfirmed, runStart,
                  aborted, assignResult, fnCall, fnResult, cachedFieldMap,
                  resolveCalls, catalogRequests, advanceCalls >>

\* runTransitionLoop(issueData) up to the first step's `await showToast`.
RunLoopBegin(issueData, o) ==
  LET remaining == getRemainingSteps(issueData.status)
  IN  IF Len(remaining) = 0
      THEN /\ issue' = SetStatus(issue, "Done")
           /\ transition' = PhaseDone
           /\ pc' = "idle"
           /\ op' = NoOp
           /\ UNCHANGED << abortRef, runConfirmed, runStart >>
      ELSE /\ abortRef' = FALSE
           /\ op' = [FormClosed(o) EXCEPT !.issueData = issueData, !.stepIdx = 1,
                                           !.currentStatus = issueData.status,
                                           !.completedSteps = << >>]
           /\ transition' = Running(issueData.status, remaining[1].status, << >>,
                                    Len(remaining))
           /\ pc' = "loopToast"
           /\ runConfirmed' = << >>
           /\ runStart' = issueData.status
           /\ issue' = issue

\* The gate lets the run through: `await runTransitionLoop(issue)`, also the
\* gate form's onComplete.
MtdGated ==
  /\ cmd = "movetodone" /\ pc = "gated"
  /\ RunLoopBegin(op.issueData, GateStarts(op))
  /\ UNCHANGED << cmd, mounted, loading, loadError, done, toast, ti, tiResult,
                  outstanding, stepRequests, stepLabels, resumeAt,
                  chainConfirmed, aborted, assignResult, fnCall, fnResult,
                  cachedFieldMap, resolveCalls, catalogRequests, advanceCalls >>

\* The form's onComplete after a rejected step: runTransitionLoop(resumeIssue).
MtdResumeRunLoop ==
  /\ cmd = "movetodone" /\ pc = "resume" /\ op.onComplete = "runLoop"
  /\ RunLoopBegin(op.resumeIssue, op)
  /\ UNCHANGED << cmd, mounted, loading, loadError, done, toast, ti, tiResult,
                  outstanding, stepRequests, stepLabels, resumeAt,
                  chainConfirmed, aborted, assignResult, fnCall, fnResult,
                  cachedFieldMap, resolveCalls, catalogRequests, advanceCalls >>

\* The step's `await showToast` settles: `await transitionIssue(key, step.status)`.
MtdLoopToast ==
  /\ cmd = "movetodone" /\ pc = "loopToast"
  /\ BeginTransitionIssue(getRemainingSteps(op.issueData.status)[op.stepIdx].status)
  /\ toast' = Toast("animated", "Transitioning", None)
  /\ UNCHANGED << cmd, mounted, abortRef, loading, loadError, issue, done,
                  transition, op, tiResult, runConfirmed, resumeAt,
                  chainConfirmed, runStart, aborted, assignResult, fnCall,
                  fnResult, cachedFieldMap, resolveCalls, catalogRequests,
                  advanceCalls >>

\* The loop body after `await transitionIssue`, up to the sleep, the loop's
\* end or the catch's return.
MtdStepSettled ==
  /\ cmd = "movetodone" /\ pc = "settled" /\ op.kind = "run"
  /\ LET remaining == getRemainingSteps(op.issueData.status)
         step      == remaining[op.stepIdx]
         completed == Append(op.completedSteps, StepText(step))
     IN  IF tiResult.ok
         THEN /\ toast' = Toast("success", "Done", None)
              /\ IF Len(completed) < Len(remaining)
                 THEN /\ pc' = "sleep"
                      /\ op' = [op EXCEPT !.completedSteps = completed,
                                          !.currentStatus = step.status]
                      /\ UNCHANGED << issue, transition >>
                 ELSE /\ issue' = SetStatus(issue, "Done")
                      /\ transition' = PhaseDone
                      /\ pc' = "idle"
                      /\ op' = NoOp
         ELSE /\ issue' = SetStatus(issue, StatusOnFailure(op))
              /\ IF RejectionSuspends(tiResult.msg)
                 THEN /\ toast' = Toast("hidden", "Transition failed", None)
                      /\ OpenForm([op EXCEPT !.resumeIssue = ResumeIssueOf(op)],
                                  parseMissingFieldsFromError(tiResult.msg), "runLoop")
                      /\ transition' = transition
                 ELSE /\ toast' = Toast("failure", "Transition failed", None)
                      /\ transition' = PhaseError(step.status, op.completedSteps)
                      /\ pc' = "idle"
                      /\ op' = NoOp
  /\ ResultConsumed
  /\ UNCHANGED << cmd, mounted, abortRef, loading, loadError, done, ti,
                  outstanding, runConfirmed, resumeAt, chainConfirmed,
                  runStart, aborted, assignResult, fnCall, fnResult,
                  cachedFieldMap, resolveCalls, catalogRequests, advanceCalls >>

\* sleep(600) settles: the loop head (`if (abortRef.current) break`), then
\* either the next step's setTransition or, after the break, the lines that
\* follow the loop.
MtdSleepDone ==
  /\ cmd = "movetodone" /\ pc = "sleep"
  /\ LET remaining == getRemainingSteps(op.issueData.status)
         idx       == NextStepIdx(op)
     IN  IF abortRef
         THEN /\ aborted' = TRUE
              /\ issue' = SetStatus(issue, "Done")
              /\ transition' = PhaseDone
              /\ pc' = "idle"
              /\ op' = NoOp
         ELSE /\ aborted' = aborted
              /\ issue' = issue
              /\ op' = [op EXCEPT !.stepIdx = idx]
              /\ transition' = Running(op.currentStatus, remaining[idx].status,
                                       op.completedSteps, Len(remaining))
              /\ pc' = "loopToast"
  /\ UNCHANGED << cmd, mounted, abortRef, loading, loadError, done, toast, ti,
                  tiResult, outstanding, runConfirmed, stepRequests,
                  stepLabels, resumeAt, chainConfirmed, runStart, assignResult,
                  fnCall, fnResult, cachedFieldMap, resolveCalls,
                  catalogRequests, advanceCalls >>

\* Advance One Step Only: offered when !isDone && !isRunning && remaining.length > 1.
MtdOneStep ==
  /\ cmd = "movetodone" /\ ViewReady /\ pc = "idle"
  /\ ~isDone /\ ~isRunning
  /\ LET remaining == getRemainingSteps(issue.status)
     IN  /\ Len(remaining) > 1
         /\ op' = [NoOp EXCEPT !.kind = "one", !.issueData = issue,
                               !.target = remaining[1]]
         /\ BeginTransitionIssue(remaining[1].status)
         /\ toast' = Toast("animated", "Advancing", None)
  /\ OpStarts
  /\ UNCHANGED << cmd, mounted, abortRef, loading, loadError, issue, done,
                  transition, tiResult, fnCall, fnResult, cachedFieldMap,
                  resolveCalls, catalogRequests, advanceCalls >>

\* doAdvance after `await transitionIssue(issue.key, next.status)`.
MtdOneStepSettled ==
  /\ cmd = "movetodone" /\ pc = "settled" /\ op.kind = "one"
  /\ IF tiResult.ok
     THEN /\ issue' = [op.issueData EXCEPT !.status = op.target.status]
          /\ toast' = Toast("success", "Moved", None)
          /\ pc' = "idle"
          /\ op' = NoOp
     ELSE /\ issue' = issue
          /\ IF RejectionSuspends(tiResult.msg)
             THEN /\ toast' = Toast("hidden", "Advancing", None)
                  /\ OpenForm(op, parseMissingFieldsFromError(tiResult.msg), "doTransition")
             ELSE /\ toast' = Toast("failure", "Advancing", None)
                  /\ pc' = "idle"
                  /\ op' = NoOp
  /\ ResultConsumed
  /\ UNCHANGED << cmd, mounted, abortRef, loading, loadError, done, transition,
                  ti, outstanding, runConfirmed, resumeAt, chainConfirmed,
                  runStart, aborted, assignResult, fnCall, fnResult,
                  cachedFieldMap, resolveCalls, catalogRequests, advanceCalls >>


\* ------------------------------------------------------------------------
\* autoAssignForStatus (utils.ts, lines 530-602)
\* ------------------------------------------------------------------------

ROLE_STATUS_MAP_WithDone ==
  [s \in { "TESTING", "1ST REVIEW", "2ND REVIEW", "DONE" } |->
     IF s = "TESTING" THEN "qa" ELSE "reviewer"]

\* ROLE_STATUS_MAP (utils.ts): normalized status -> role.
ROLE_STATUS_MAP ==
  [s \in { "TESTING", "1ST REVIEW", "2ND REVIEW" } |->
     IF s = "TESTING" THEN "qa" ELSE "reviewer"]

ROLE_FIELD_NAMES ==
  [r \in { "qa", "reviewer" } |-> IF r = "qa" THEN "QA" ELSE "Development Reviewer"]

\* What a call meets outside the program: the id resolveFieldId finds for the
\* role's field (None: null), the user held by that field of the issue (None:
\* no user), the role's assignee preference ("" when unset), the users the
\* directory search returns, and the request that is rejected, if any.
AssignEnvs ==
  [ fieldId   : { None, "customfield_1" },
    fieldUser : { None, "fieldUser" },
    pref      : { "", "default@example.com" },
    found     : { << >>, << "userA" >>, << "userA", "userB" >> },
    fail      : { None, "issueView", "searchJiraUser", "assignIssue" } ]

\* A request or lookup made by the call, with its argument.
Call(name, arg) == [name |-> name, arg |-> arg]

AssignReturn(assigned, user, calls) ==
  [assigned |-> assigned, user |-> user, calls |-> calls, threw |-> FALSE]

AssignThrow(calls) ==
  [assigned |-> FALSE, user |-> None, calls |-> calls, threw |-> TRUE]

LastMatch(users) == users[Len(users)]

\* users[0]
FirstMatch(users) == users[1]

\* `await assignIssue(ticketKey, user); return { assigned: true, ... }`
AssignTo(user, env, calls) ==
  LET made == Append(calls, Call("assignIssue", user))
  IN  IF env.fail = "assignIssue" THEN AssignThrow(made)
      ELSE AssignReturn(TRUE, user, made)

\* autoAssignForStatus after getIssueFieldUser returned null: the role's
\* preference, the directory search, the first user found.
AssignByDefault(role, env, calls) ==
  LET asked == Append(calls, Call("getRoleAssignee", role))
  IN  IF env.pref = "" THEN AssignReturn(FALSE, None, asked)
      ELSE LET searched == Append(asked, Call("searchJiraUser", env.pref))
           IN  IF env.fail = "searchJiraUser" THEN AssignThrow(searched)
               ELSE IF Len(env.found) = 0 THEN AssignReturn(FALSE, None, searched)
               ELSE AssignTo(FirstMatch(env.found), env, searched)

\* autoAssignForStatus(ticketKey, targetStatus): what it returns or that it
\* throws, and the requests it made, in order.  getIssueFieldUser returns
\* null without reading the issue when the field has no id.
autoAssignForStatus(targetStatus, env) ==
  IF normalizeStatus(targetStatus) \notin DOMAIN ROLE_STATUS_MAP
  THEN AssignReturn(FALSE, None, << >>)
  ELSE LET role     == ROLE_STATUS_MAP[normalizeStatus(targetStatus)]
           resolved == << Call("resolveFieldId", ROLE_FIELD_NAMES[role]) >>
           viewed   == Append(resolved, Call("issueView", env.fieldId))
       IN  IF env.fieldId = None THEN AssignByDefault(role, env, resolved)
           ELSE IF env.fail = "issueView" THEN AssignThrow(viewed)
           ELSE IF env.fieldUser # None THEN AssignTo(env.fieldUser, env, viewed)
           ELSE AssignByDefault(role, env, viewed)

\* How a call autoAssignForStatus(key, targetStatus) may settle for its
\* caller: assigned true ("assigned"), assigned false ("none"), or a
\* rejection ("threw").
AssignOutcomes(targetStatus) ==
  { IF autoAssignForStatus(targetStatus, env).threw THEN "threw"
    ELSE IF autoAssignForStatus(targetStatus, env).assigned THEN "assigned"
    ELSE "none" : env \in AssignEnvs }


\* ------------------------------------------------------------------------
\* setIssueCustomFields (utils.ts, lines 423-456)
\* ------------------------------------------------------------------------

MaxFields == 2

\* resolveFieldId(name) when the tracker's catalog lists the names `listed`
\* (none when its fetch failed): the built-in id, else the catalog's, else
\* null.
ResolvedId(name, listed) ==
  IF name \in DOMAIN FIELD_NAME_TO_ID THEN FIELD_NAME_TO_ID[name]
  ELSE IF name \in listed THEN CatalogId(name)
  ELSE None

UnresolvedSkipped(id) == FALSE

\* `if (!id) throw new Error("Could not resolve Jira field ID ...")`
UnresolvedThrows(id) == id = None

RECURSIVE ResolveAll(_, _, _, _, _)
\* The loop over Object.entries(fields) from entry i on: fieldData so far and
\* the names resolved so far; it ends in the throw or with fieldData complete.
ResolveAll(names, listed, i, fieldData, resolved) ==
  IF i > Len(names)
  THEN [threw |-> FALSE, fieldData |-> fieldData, resolved |-> resolved]
  ELSE LET id == ResolvedId(names[i], listed)
       IN  IF UnresolvedThrows(id)
           THEN [threw |-> TRUE, fieldData |-> fieldData,
                 resolved |-> Append(resolved, names[i])]
           ELSE ResolveAll(names, listed, i + 1,
                           IF id = None THEN fieldData ELSE fieldData \cup { id },
                           Append(resolved, names[i]))

\* setIssueCustomFields(ticketKey, fields): whether it throws, and the bodies
\* of the PUT requests it sent (the ids written), in order.  The one PUT is
\* sent after the loop; a non-2xx answer to it throws.
setIssueCustomFields(names, listed, putOk) ==
  LET r == ResolveAll(names, listed, 1, {}, << >>)
  IN  IF r.threw
      THEN [threw |-> TRUE, puts |-> << >>, resolved |-> r.resolved]
      ELSE [threw |-> ~putOk, puts |-> << r.fieldData >>, resolved |-> r.resolved]

\* ------------------------------------------------------------------------
\* WorkflowStatusBoard (jira-workflow-status-board.tsx, lines 200-378)
\* ------------------------------------------------------------------------

\* The board lists the issue under a non-Done stage of the workflow.
BoardListed ==
  /\ ViewReady
  /\ \E i \in 1..(Len(WORKFLOW) - 1) :
       normalizeStatus(issue.status) = normalizeStatus(WORKFLOW[i].status)

\* advanceIssue: `if (next.status === "Done")`
BoardNeedsGate(next) == next.status = "Done"

\* moveToDone's catch: setIssues(... status: current ...)
BoardStatusOnFailure(o) == o.currentStatus

\* onComplete={() => moveToDone({ ...issue, status: current })}
BoardResumeIssueOf(o) == [o.issueData EXCEPT !.status = o.currentStatus]

AssignRethrownWhenThrew(outcome) == outcome = "threw"

\* Whether the call's outcome leaves the try block that wraps it: the inner
\* catch is empty and rethrows nothing.
AssignRethrown(outcome) == FALSE

\* Advance to <next>: advanceIssue(issue).
BoardAdvance ==
  /\ cmd = "board" /\ BoardListed /\ pc = "idle"
  /\ LET next == getNextStatus(issue.status)
     IN  /\ next # NoStep
         /\ op' = [NoOp EXCEPT !.kind = "advance", !.issueData = issue, !.target = next]
         /\ OpStarts
         /\ IF BoardNeedsGate(next)
            THEN /\ pc' = "autofillRead"
                 /\ toast' = Toast("animated", "Checking required fields", None)
                 /\ UNCHANGED << ti, outstanding, stepRequests, stepLabels >>
            ELSE /\ BeginTransitionIssue(next.status)
                 /\ toast' = Toast("animated", "Advancing", None)
  /\ UNCHANGED << cmd, mounted, abortRef, loading, loadError, issue, done,
                  transition, tiResult, fnCall, fnResult, cachedFieldMap,
                  resolveCalls, catalogRequests, advanceCalls >>

\* Move Back to <prev>: regressIssue(issue).
BoardRegress ==
  /\ cmd = "board" /\ BoardListed /\ pc = "idle"
  /\ LET prev == getPreviousStatus(issue.status)
     IN  /\ prev # NoStep
         /\ op' = [NoOp EXCEPT !.kind = "regress", !.issueData = issue, !.target = prev]
         /\ OpStarts
         /\ BeginTransitionIssue(prev.status)
         /\ toast' = Toast("animated", "Moving back", None)
  /\ UNCHANGED << cmd, mounted, abortRef, loading, loadError, issue, done,
                  transition, tiResult, fnCall, fnResult, cachedFieldMap,
                  resolveCalls, catalogRequests, advanceCalls >>

\* advanceIssue's doTransition / regressIssue after `await transitionIssue`.
BoardSingleSettled ==
  /\ cmd = "board" /\ pc = "settled" /\ op.kind \in { "advance", "regress" }
  /\ IF tiResult.ok
     THEN /\ issue' = SetStatus(issue, op.target.status)
          /\ toast' = Toast("success", IF op.kind = "advance" THEN "advanced"
                                       ELSE "moved back", None)
          /\ pc' = "assign"
          /\ op' = [op EXCEPT !.assignFor = op.target.status]
     ELSE /\ issue' = issue
          /\ IF RejectionSuspends(tiResult.msg)
             THEN /\ toast' = Toast("failure", "Transition failed", None)
                  /\ OpenForm(op, parseMissingFieldsFromError(tiResult.msg),
                              IF op.kind = "advance" THEN "doTransition"
                              ELSE "regressIssue")
             ELSE /\ toast' = Toast("failure", "Transition failed", None)
                  /\ pc' = "idle"
                  /\ op' = NoOp
  /\ ResultConsumed
  /\ UNCHANGED << cmd, mounted, abortRef, loading, loadError, done, transition,
                  ti, outstanding, runConfirmed, resumeAt, chainConfirmed,
                  runStart, aborted, assignResult, fnCall, fnResult,
                  cachedFieldMap, resolveCalls, catalogRequests, advanceCalls >>

\* autoAssignForStatus settles after a single step.  Its rejection is caught
\* by the inner `catch { /* auto-assign is best-effort */ }`; one that left
\* the inner try would reach the catch of the transition.
BoardAssignSettles ==
  /\ cmd = "board" /\ pc = "assign" /\ op.kind \in { "advance", "regress" }
  /\ \E outcome \in AssignOutcomes(op.assignFor) :
       /\ assignResult' = outcome
       /\ toast' = IF AssignRethrown(outcome)
                   THEN Toast("failure", "Transition failed", None)
                   ELSE toast
  /\ pc' = "idle"
  /\ op' = NoOp
  /\ UNCHANGED << cmd, mounted, abortRef, loading, loadError, issue, done,
                  transition, ti, tiResult, outstanding, runConfirmed,
                  stepRequests, stepLabels, resumeAt, chainConfirmed, runStart,
                  aborted, fnCall, fnResult, cachedFieldMap, resolveCalls,
                  catalogRequests, advanceCalls >>

\* The gate lets advanceIssue through: `await action()` with doTransition.
BoardGatedAdvance ==
  /\ cmd = "board" /\ pc = "gated" /\ op.kind = "advance"
  /\ BeginTransitionIssue(op.target.status)
  /\ op' = GateStarts(FormClosed(op))
  /\ toast' = Toast("animated", "Advancing", None)
  /\ UNCHANGED << cmd, mounted, abortRef, loading, loadError, issue, done,
                  transition, tiResult, runConfirmed, resumeAt, chainConfirmed,
                  runStart, aborted, assignResult, fnCall, fnResult,
                  cachedFieldMap, resolveCalls, catalogRequests, advanceCalls >>

\* moveToDone(issueData) up to ensureDevDatesAndRun's first await.
BoardMoveToDoneBegin(issueData) ==
  IF Len(getRemainingSteps(issueData.status)) = 0
  THEN /\ pc' = "idle"
       /\ op' = NoOp
       /\ toast' = toast
  ELSE /\ pc' = "autofillRead"
       /\ op' = [NoOp EXCEPT !.kind = "run", !.issueData = issueData]
       /\ toast' = Toast("animated", "Checking required fields", None)

\* Move to Done: moveToDone(issue).
BoardMoveToDone ==
  /\ cmd = "board" /\ BoardListed /\ pc = "idle"
  /\ getNextStatus(issue.status) # NoStep
  /\ BoardMoveToDoneBegin(issue)
  /\ ChainStarts
  /\ UNCHANGED << cmd, mounted, abortRef, loading, loadError, issue, done,
                  transition, ti, tiResult, outstanding, runConfirmed,
                  stepRequests, stepLabels, resumeAt, runStart, fnCall,
                  fnResult, cachedFieldMap, resolveCalls, catalogRequests,
                  advanceCalls >>

\* The form's onComplete after a rejected step: moveToDone({...issue, status: current}).
BoardResumeMoveToDone ==
  /\ cmd = "board" /\ pc = "resume" /\ op.onComplete = "moveToDone"
  /\ BoardMoveToDoneBegin(op.resumeIssue)
  /\ UNCHANGED << cmd, mounted, abortRef, loading, loadError, issue, done,
                  transition, ti, tiResult, outstanding, runConfirmed,
                  stepRequests, stepLabels, resumeAt, chainConfirmed, runStart,
                  aborted, assignResult, fnCall, fnResult, cachedFieldMap,
                  resolveCalls, catalogRequests, advanceCalls >>

\* The gate lets moveToDone through: doTransitions up to its first
\* `await transitionIssue`.
BoardGatedRun ==
  /\ cmd = "board" /\ pc = "gated" /\ op.kind = "run"
  /\ op' = [GateStarts(FormClosed(op)) EXCEPT !.stepIdx = 1,
                                              !.currentStatus = op.issueData.status]
  /\ runConfirmed' = << >>
  /\ runStart' = op.issueData.status
  /\ BeginTransitionIssue(getRemainingSteps(op.issueData.status)[1].status)
  /\ toast' = Toast("animated", "Moving to Done", None)
  /\ UNCHANGED << cmd, mounted, abortRef, loading, loadError, issue, done,
                  transition, tiResult, resumeAt, chainConfirmed, aborted,
                  assignResult, fnCall, fnResult, cachedFieldMap, resolveCalls,
                  catalogRequests, advanceCalls >>

\* doTransitions after `await transitionIssue`: `current = step.status` and on
\* to autoAssignForStatus, or the catch.
BoardStepSettled ==
  /\ cmd = "board" /\ pc = "settled" /\ op.kind = "run"
  /\ LET step == getRemainingSteps(op.issueData.status)[op.stepIdx]
     IN  IF tiResult.ok
         THEN /\ op' = [op EXCEPT !.currentStatus = step.status,
                                   !.assignFor = step.status]
              /\ pc' = "assign"
              /\ UNCHANGED << issue, toast >>
         ELSE /\ issue' = SetStatus(issue, BoardStatusOnFailure(op))
              /\ IF RejectionSuspends(tiResult.msg)
                 THEN /\ toast' = Toast("hidden", "Failed at", step.status)
                      /\ OpenForm([op EXCEPT !.resumeIssue = BoardResumeIssueOf(op)],
                                  parseMissingFieldsFromError(tiResult.msg), "moveToDone")
                 ELSE /\ toast' = Toast("failure", "Failed at", step.status)
                      /\ pc' = "idle"
                      /\ op' = NoOp
  /\ ResultConsumed
  /\ UNCHANGED << cmd, mounted, abortRef, loading, loadError, done, transition,
                  ti, outstanding, runConfirmed, resumeAt, chainConfirmed,
                  runStart, aborted, assignResult, fnCall, fnResult,
                  cachedFieldMap, resolveCalls, catalogRequests, advanceCalls >>

\* autoAssignForStatus settles within the chain: `try { await ... } catch
\* { /* best-effort */ }`, then the 600 ms pause.  A rejection that left the
\* inner try would reach the step's catch.
BoardStepAssignSettles ==
  /\ cmd = "board" /\ pc = "assign" /\ op.kind = "run"
  /\ \E outcome \in AssignOutcomes(op.assignFor) :
       /\ assignResult' = outcome
       /\ IF AssignRethrown(outcome)
          THEN /\ issue' = SetStatus(issue, BoardStatusOnFailure(op))
               /\ toast' = Toast("failure", "Failed at", op.assignFor)
               /\ pc' = "idle"
               /\ op' = NoOp
          ELSE /\ pc' = "sleep"
               /\ UNCHANGED << issue, toast, op >>
  /\ UNCHANGED << cmd, mounted, abortRef, loading, loadError, done, transition,
                  ti, tiResult, outstanding, runConfirmed, stepRequests,
                  stepLabels, resumeAt, chainConfirmed, runStart, aborted,
                  fnCall, fnResult, cachedFieldMap, resolveCalls,
                  catalogRequests, advanceCalls >>

\* The pause ends: the next step's transitionIssue, or after the last step
\* the issue is removed from the board.
BoardSleepDone ==
  /\ cmd = "board" /\ pc = "sleep"
  /\ LET remaining == getRemainingSteps(op.issueData.status)
         idx       == NextStepIdx(op)
     IN  IF idx <= Len(remaining)
         THEN /\ op' = [op EXCEPT !.stepIdx = idx]
              /\ BeginTransitionIssue(remaining[idx].status)
              /\ UNCHANGED << issue, toast >>
         ELSE /\ issue' = NoIssue
              /\ toast' = Toast("success", "is Done", None)
              /\ pc' = "idle"
              /\ op' = NoOp
              /\ UNCHANGED << ti, outstanding, stepRequests, stepLabels >>
  /\ UNCHANGED << cmd, mounted, abortRef, loading, loadError, done, transition,
                  tiResult, runConfirmed, resumeAt, chainConfirmed, runStart,
                  aborted, assignResult, fnCall, fnResult, cachedFieldMap,
                  resolveCalls, catalogRequests, advanceCalls >>

\* ------------------------------------------------------------------------
\* The program
\* ------------------------------------------------------------------------

Next ==
  \/ LoadStart
  \/ LoadSettles
  \/ Unmount
  \/ TryMoveSettles
  \/ AutoFillReadSettles
  \/ AutoFillWriteSettles
  \/ FormSubmit
  \/ FormWriteSettles
  \/ FormDismiss
  \/ ResumeSingleStep
  \/ AdvAdvance
  \/ AdvGated
  \/ AdvDoTransitionSettled
  \/ AdvRegress
  \/ AdvRegressSettled
  \/ MtdStart
  \/ MtdConfirm
  \/ MtdGated
  \/ MtdResumeRunLoop
  \/ MtdLoopToast
  \/ MtdStepSettled
  \/ MtdSleepDone
  \/ MtdOneStep
  \/ MtdOneStepSettled
  \/ BoardAdvance
  \/ BoardRegress
  \/ BoardSingleSettled
  \/ BoardAssignSettles
  \/ BoardGatedAdvance
  \/ BoardMoveToDone
  \/ BoardResumeMoveToDone
  \/ BoardGatedRun
  \/ BoardStepSettled
  \/ BoardStepAssignSettles
  \/ BoardSleepDone

Spec == Init /\ [][Next]_vars


\* A step of a chain that waits for nothing but a call to settle: the
\* tracker's answer to a move, a toast, a pause, the auto-assigner, and the
\* continuation that awaited it.
ChainStep ==
  \/ TryMoveSettles
  \/ MtdLoopToast
  \/ MtdStepSettled
  \/ MtdSleepDone
  \/ BoardStepSettled
  \/ BoardStepAssignSettles
  \/ BoardSleepDone

\* Every call a chain awaits settles.
ChainFairness == WF_vars(ChainStep)

LiveSpec == Init /\ [][Next]_vars /\ ChainFairness

\* ------------------------------------------------------------------------
\* The functions of utils.ts taken alone: a call is drawn with its arguments
\* and the function is applied to it
\* ------------------------------------------------------------------------

\* The longest list of available labels handed to findMatchingTransition.
MaxLabels == 2

\* Status strings handed to the workflow lookups: what the tracker reports,
\* and other spellings (padded, lower case, upper case, empty, blank).
FnStatuses ==
  RawStatuses \cup { " To Do ", " TO DO ", "to do", "waiting", "done", "WAITING",
                     "DOING", "DONE", "", "  " }

\* What getIssueRawFields may hold for a field: null, the empty string or a date.
FnFieldValues == { None, "", "2024-01-01", "2024-02-02" }

\* Labels the tracker may list as available states.
FnLabels ==
  { Lbl("", "Doing"), Lbl("", "DOING"), Lbl("Back to ", "Doing"),
    Lbl("Return to ", "Doing"), Lbl("", "Cancel"), Lbl("", "Done"),
    Lbl("Back to ", "Done") }

SeqsUpTo(S, n) == UNION { [1..k -> S] : k \in 0..n }

\* The fields a form hands to setIssueCustomFields: at least one name, none
\* twice.
FieldRequests ==
  { f \in SeqsUpTo(ResolveNames, MaxFields) :
      Len(f) > 0 /\ \A i, j \in 1..Len(f) : i # j => f[i] # f[j] }

FnCalls ==
  { [NoCall EXCEPT !.fn = f, !.status = s] :
      f \in { "normalizeStatus", "lookups", "roundTrip" }, s \in FnStatuses }
    \cup { [NoCall EXCEPT !.fn = "autoFillDevDates", !.raw = r] :
             r \in [DevFieldNames -> FnFieldValues] }
    \cup { [NoCall EXCEPT !.fn = "findMatchingTransition", !.target = t,
                          !.available = a] :
             t \in { "Doing", "Done" }, a \in SeqsUpTo(FnLabels, MaxLabels) }
    \cup { [NoCall EXCEPT !.fn = "autoAssignForStatus", !.target = t, !.env = e] :
             t \in RawStatuses, e \in AssignEnvs }
    \cup { [NoCall EXCEPT !.fn = "setIssueCustomFields", !.fields = f,
                          !.listed = l, !.putOk = ok] :
             f \in FieldRequests, l \in Catalogs \cup { {} }, ok \in BOOLEAN }

FnInit ==
  /\ ProgramInit
  /\ cmd = "advance"
  /\ fnCall \in FnCalls
  /\ fnResult = NoFnResult

\* normalizeStatus(status)
ApplyNormalizeStatus ==
  /\ fnCall.fn = "normalizeStatus" /\ fnResult.fn = "none"
  /\ fnResult' = [NoFnResult EXCEPT !.fn = fnCall.fn,
                                    !.norm = normalizeStatus(fnCall.status)]
  /\ UNCHANGED << cmd, mounted, abortRef, loading, loadError, issue, done,
                  transition, toast, pc, op, ti, tiResult, outstanding,
                  runConfirmed, stepRequests, stepLabels, resumeAt,
                  chainConfirmed, runStart, aborted, assignResult, fnCall,
                  cachedFieldMap, resolveCalls, catalogRequests, advanceCalls >>

\* getWorkflowIndex, getNextStatus, getPreviousStatus, getRemainingSteps of
\* one status.
ApplyLookups ==
  /\ fnCall.fn = "lookups" /\ fnResult.fn = "none"
  /\ fnResult' = [NoFnResult EXCEPT !.fn = fnCall.fn,
                                    !.idx = getWorkflowIndex(fnCall.status),
                                    !.next = getNextStatus(fnCall.status),
                                    !.prev = getPreviousStatus(fnCall.status),
                                    !.remaining = getRemainingSteps(fnCall.status)]
  /\ UNCHANGED << cmd, mounted, abortRef, loading, loadError, issue, done,
                  transition, toast, pc, op, ti, tiResult, outstanding,
                  runConfirmed, stepRequests, stepLabels, resumeAt,
                  chainConfirmed, runStart, aborted, assignResult, fnCall,
                  cachedFieldMap, resolveCalls, catalogRequests, advanceCalls >>

\* getNextStatus(getPreviousStatus(getNextStatus(s).status).status), as far as
\* each result is a step.
ApplyRoundTrip ==
  /\ fnCall.fn = "roundTrip" /\ fnResult.fn = "none"
  /\ LET next == getNextStatus(fnCall.status)
         prev == IF next = NoStep THEN NoStep ELSE getPreviousStatus(next.status)
         round == IF prev = NoStep THEN NoStep ELSE getNextStatus(prev.status)
     IN  fnResult' = [NoFnResult EXCEPT !.fn = fnCall.fn, !.next = next,
                                        !.prev = prev, !.round = round]
  /\ UNCHANGED << cmd, mounted, abortRef, loading, loadError, issue, done,
                  transition, toast, pc, op, ti, tiResult, outstanding,
                  runConfirmed, stepRequests, stepLabels, resumeAt,
                  chainConfirmed, runStart, aborted, assignResult, fnCall,
                  cachedFieldMap, resolveCalls, catalogRequests, advanceCalls >>

\* autoFillDevDates on what getIssueRawFields read, with the writes it issues.
ApplyAutoFillDevDates ==
  /\ fnCall.fn = "autoFillDevDates" /\ fnResult.fn = "none"
  /\ LET plan == autoFillPlan(fnCall.raw)
     IN  fnResult' = [NoFnResult EXCEPT !.fn = fnCall.fn,
                                        !.filled = plan.filled,
                                        !.stillMissing = plan.stillMissing,
                                        !.writes = autoFillWrites(plan)]
  /\ UNCHANGED << cmd, mounted, abortRef, loading, loadError, issue, done,
                  transition, toast, pc, op, ti, tiResult, outstanding,
                  runConfirmed, stepRequests, stepLabels, resumeAt,
                  chainConfirmed, runStart, aborted, assignResult, fnCall,
                  cachedFieldMap, resolveCalls, catalogRequests, advanceCalls >>

\* findMatchingTransition(targetStatus, available)
ApplyFindMatchingTransition ==
  /\ fnCall.fn = "findMatchingTransition" /\ fnResult.fn = "none"
  /\ fnResult' = [NoFnResult EXCEPT
                    !.fn = fnCall.fn,
                    !.label = findMatchingTransition(fnCall.target, fnCall.available)]
  /\ UNCHANGED << cmd, mounted, abortRef, loading, loadError, issue, done,
                  transition, toast, pc, op, ti, tiResult, outstanding,
                  runConfirmed, stepRequests, stepLabels, resumeAt,
                  chainConfirmed, runStart, aborted, assignResult, fnCall,
                  cachedFieldMap, resolveCalls, catalogRequests, advanceCalls >>

\* autoAssignForStatus(key, targetStatus)
ApplyAutoAssignForStatus ==
  /\ fnCall.fn = "autoAssignForStatus" /\ fnResult.fn = "none"
  /\ fnResult' = [NoFnResult EXCEPT
                    !.fn = fnCall.fn,
                    !.assign = autoAssignForStatus(fnCall.target, fnCall.env)]
  /\ UNCHANGED << cmd, mounted, abortRef, loading, loadError, issue, done,
                  transition, toast, pc, op, ti, tiResult, outstanding,
                  runConfirmed, stepRequests, stepLabels, resumeAt,
                  chainConfirmed, runStart, aborted, assignResult, fnCall,
                  cachedFieldMap, resolveCalls, catalogRequests, advanceCalls >>

\* setIssueCustomFields(key, fields)
ApplySetIssueCustomFields ==
  /\ fnCall.fn = "setIssueCustomFields" /\ fnResult.fn = "none"
  /\ fnResult' = [NoFnResult EXCEPT
                    !.fn = fnCall.fn,
                    !.setFields = setIssueCustomFields(fnCall.fields, fnCall.listed,
                                                       fnCall.putOk)]
  /\ UNCHANGED << cmd, mounted, abortRef, loading, loadError, issue, done,
                  transition, toast, pc, op, ti, tiResult, outstanding,
                  runConfirmed, stepRequests, stepLabels, resumeAt,
                  chainConfirmed, runStart, aborted, assignResult, fnCall,
                  cachedFieldMap, resolveCalls, catalogRequests, advanceCalls >>

FnNext ==
  \/ ApplyNormalizeStatus
  \/ ApplyLookups
  \/ ApplyRoundTrip
  \/ ApplyAutoFillDevDates
  \/ ApplyFindMatchingTransition
  \/ ApplyAutoAssignForStatus
  \/ ApplySetIssueCustomFields

FnSpec == FnInit /\ [][FnNext]_vars

\* ------------------------------------------------------------------------
\* resolveFieldId taken alone: its callers interleave at its await
\* ------------------------------------------------------------------------

CatalogInit ==
  /\ ProgramInit /\ cmd = "board"
  /\ fnCall = NoCall
  /\ fnResult = NoFnResult

\* `if (!cachedFieldMap)`: the catalog is fetched by this call.
FetchNeeded(c) == cachedFieldMap.isNull

\* resolveFieldId(fieldName) up to its await, or to its return when it does
\* not await: the built-in table, else the fetch when cachedFieldMap is null,
\* else the cached map.
resolveFieldIdCalled(c) ==
  /\ resolveCalls[c].pc = "idle"
  /\ \E fieldName \in ResolveNames :
       IF fieldName \in DOMAIN FIELD_NAME_TO_ID
       THEN /\ resolveCalls' = [resolveCalls EXCEPT ![c] =
                 [pc |-> "returned", name |-> fieldName,
                  result |-> FIELD_NAME_TO_ID[fieldName]]]
            /\ UNCHANGED catalogRequests
       ELSE IF FetchNeeded(c)
       THEN /\ resolveCalls' = [resolveCalls EXCEPT ![c] =
                 [pc |-> "fetching", name |-> fieldName, result |-> None]]
            /\ catalogRequests' = catalogRequests + 1
       ELSE /\ resolveCalls' = [resolveCalls EXCEPT ![c] =
                 [pc |-> "returned", name |-> fieldName,
                  result |-> cachedFieldMap.ids[fieldName]]]
            /\ UNCHANGED catalogRequests
  /\ UNCHANGED << cmd, mounted, abortRef, loading, loadError, issue, done,
                  transition, toast, pc, op, ti, tiResult, outstanding,
                  runConfirmed, stepRequests, stepLabels, resumeAt,
                  chainConfirmed, runStart, aborted, assignResult, fnCall,
                  fnResult, cachedFieldMap, advanceCalls >>

\* The fetch settles: the map is built from the fields listed, or set to {}
\* in the catch; then `return cachedFieldMap[fieldName] ?? null`.
resolveFieldIdFetched(c) ==
  /\ resolveCalls[c].pc = "fetching"
  /\ \E listed \in Catalogs \cup { {} } :
       /\ cachedFieldMap' = BuiltFieldMap(listed)
       /\ resolveCalls' = [resolveCalls EXCEPT ![c] =
            [pc |-> "returned", name |-> resolveCalls[c].name,
             result |-> BuiltFieldMap(listed).ids[resolveCalls[c].name]]]
  /\ UNCHANGED << cmd, mounted, abortRef, loading, loadError, issue, done,
                  transition, toast, pc, op, ti, tiResult, outstanding,
                  runConfirmed, stepRequests, stepLabels, resumeAt,
                  chainConfirmed, runStart, aborted, assignResult, fnCall,
                  fnResult, catalogRequests, advanceCalls >>

\* The caller takes the result.
resolveFieldIdReturned(c) ==
  /\ resolveCalls[c].pc = "returned"
  /\ resolveCalls' = [resolveCalls EXCEPT ![c] = NoResolve]
  /\ UNCHANGED << cmd, mounted, abortRef, loading, loadError, issue, done,
                  transition, toast, pc, op, ti, tiResult, outstanding,
                  runConfirmed, stepRequests, stepLabels, resumeAt,
                  chainConfirmed, runStart, aborted, assignResult, fnCall,
                  fnResult, cachedFieldMap, catalogRequests, advanceCalls >>

CatalogNext ==
  \/ \E c \in Callers : resolveFieldIdCalled(c)
  \/ \E c \in Callers : resolveFieldIdFetched(c)
  \/ \E c \in Callers : resolveFieldIdReturned(c)

CatalogSpec == CatalogInit /\ [][CatalogNext]_vars

\* ------------------------------------------------------------------------
\* The single-step advance invoked again before it has completed
\* (AdvanceStatus.advance / doTransition, the board's advanceIssue): the
\* action stays offered while an invocation awaits the tracker.
\* ------------------------------------------------------------------------

ConcInit ==
  /\ ProgramInit /\ cmd \in { "advance", "board" }
  /\ fnCall = NoCall
  /\ fnResult = NoFnResult

\* getNextStatus(issue.status, issue.type) in AdvanceStatus,
\* getNextStatus(issue.status) on the board.
NextOf(i) ==
  IF cmd = "advance" THEN getNextStatusFor(i.status, i.type)
  ELSE getNextStatus(i.status)

\* The terminal-stage gate precedes the transition.
NeedsGate(next, i) ==
  IF cmd = "advance" THEN AdvNeedsGate(next, i.type) ELSE BoardNeedsGate(next)

Unfinished(call) == call.pc \in { "gate", "move", "form", "assign" }

\* The Advance action is on offer: `!done && nextStep` in AdvanceStatus, the
\* issue's item in the board's list; a form pushed by an invocation covers
\* the view that offers it.
AdvanceOffered ==
  /\ \A j \in Invocations : advanceCalls[j].pc # "form"
  /\ IF cmd = "advance" THEN ViewReady /\ ~done /\ NextOf(issue) # NoStep
     ELSE BoardListed /\ NextOf(issue) # NoStep

\* After the board has recorded the new status its advanceIssue awaits
\* autoAssignForStatus, which calls the tracker only for a stage with a role.
AssignAwaited(next) ==
  cmd = "board" /\ normalizeStatus(next.status) \in DOMAIN ROLE_STATUS_MAP

\* doTransition's `await transitionIssue(key, next.status)` begins.
MoveBegun(call) ==
  [call EXCEPT !.pc = "move", !.ti = TIBegin(call.next.status), !.requests = 1]

ConfirmedStatusFromCurrent(call, current) == NextOf(current).status

\* The status a confirmed invocation records: `{ ...issueData, status:
\* next.status }`, `i.key === issue.key ? { ...i, status: next.status } : i`.
ConfirmedStatus(call, current) == call.next.status

\* advance() / advanceIssue(issue) up to its first await.
AdvanceInvoked(i) ==
  /\ advanceCalls[i].pc = "none"
  /\ AdvanceOffered
  /\ LET next == NextOf(issue)
         call == [NoInvocation EXCEPT
                    !.from = issue, !.next = next,
                    !.during = { j \in Invocations : Unfinished(advanceCalls[j]) }]
     IN  advanceCalls' = [advanceCalls EXCEPT ![i] =
           IF NeedsGate(next, issue) THEN [call EXCEPT !.pc = "gate"]
           ELSE MoveBegun(call)]
  /\ UNCHANGED << cmd, mounted, abortRef, loading, loadError, issue, done,
                  transition, toast, pc, op, ti, tiResult, outstanding,
                  runConfirmed, stepRequests, stepLabels, resumeAt,
                  chainConfirmed, runStart, aborted, assignResult, fnCall,
                  fnResult, cachedFieldMap, resolveCalls, catalogRequests >>

\* autoFillDevDates settles for the gate: the transition goes ahead (nothing
\* still missing, or the filler failed), or the form opens for the fields
\* still missing.
AdvanceGateSettles(i) ==
  /\ advanceCalls[i].pc = "gate"
  /\ \/ advanceCalls' = [advanceCalls EXCEPT ![i] = MoveBegun(@)]
     \/ advanceCalls' = [advanceCalls EXCEPT ![i].pc = "form"]
  /\ UNCHANGED << cmd, mounted, abortRef, loading, loadError, issue, done,
                  transition, toast, pc, op, ti, tiResult, outstanding,
                  runConfirmed, stepRequests, stepLabels, resumeAt,
                  chainConfirmed, runStart, aborted, assignResult, fnCall,
                  fnResult, cachedFieldMap, resolveCalls, catalogRequests >>

\* The form's write was accepted: onComplete, which is doTransition with the
\* step the invocation computed.
AdvanceFormCompleted(i) ==
  /\ advanceCalls[i].pc = "form"
  /\ advanceCalls' = [advanceCalls EXCEPT ![i] = MoveBegun(@)]
  /\ UNCHANGED << cmd, mounted, abortRef, loading, loadError, issue, done,
                  transition, toast, pc, op, ti, tiResult, outstanding,
                  runConfirmed, stepRequests, stepLabels, resumeAt,
                  chainConfirmed, runStart, aborted, assignResult, fnCall,
                  fnResult, cachedFieldMap, resolveCalls, catalogRequests >>

\* The form is dismissed: the invocation ends without a transition.
AdvanceFormDismissed(i) ==
  /\ advanceCalls[i].pc = "form"
  /\ advanceCalls' = [advanceCalls EXCEPT ![i].pc = "returned"]
  /\ UNCHANGED << cmd, mounted, abortRef, loading, loadError, issue, done,
                  transition, toast, pc, op, ti, tiResult, outstanding,
                  runConfirmed, stepRequests, stepLabels, resumeAt,
                  chainConfirmed, runStart, aborted, assignResult, fnCall,
                  fnResult, cachedFieldMap, resolveCalls, catalogRequests >>

\* A move request of the invocation is answered: transitionIssue goes on to
\* another request, or it settles and doTransition's try or catch runs.
AdvanceMoveSettles(i) ==
  /\ advanceCalls[i].pc = "move"
  /\ LET call == advanceCalls[i]
     IN  \E outcome \in MoveOutcomes(call.ti.target, call.ti.phase = "primary") :
           LET r == transitionIssue(call.ti, outcome)
           IN  CASE r.res = "pending" ->
                      /\ advanceCalls' = [advanceCalls EXCEPT ![i].ti = r.ti]
                      /\ UNCHANGED << issue, done >>
                 [] r.res = "ok" ->
                      /\ advanceCalls' = [advanceCalls EXCEPT ![i] =
                           [call EXCEPT !.pc = IF AssignAwaited(call.next)
                                               THEN "assign" ELSE "returned",
                                        !.ti = NoTI, !.requests = 0,
                                        !.ok = TRUE]]
                      /\ issue' = IF cmd = "advance"
                                  THEN [call.from EXCEPT
                                          !.status = ConfirmedStatus(call, issue)]
                                  ELSE SetStatus(issue, ConfirmedStatus(call, issue))
                      /\ done' = IF cmd = "advance"
                                 THEN call.next.status = "Done" ELSE done
                 [] OTHER ->
                      /\ advanceCalls' = [advanceCalls EXCEPT ![i] =
                           [call EXCEPT !.pc = IF RejectionSuspends(r.err)
                                               THEN "form" ELSE "returned",
                                        !.ti = NoTI, !.requests = 0]]
                      /\ UNCHANGED << issue, done >>
  /\ UNCHANGED << cmd, mounted, abortRef, loading, loadError, transition,
                  toast, pc, op, ti, tiResult, outstanding, runConfirmed,
                  stepRequests, stepLabels, resumeAt, chainConfirmed, runStart,
                  aborted, assignResult, fnCall, fnResult, cachedFieldMap,
                  resolveCalls, catalogRequests >>

\* autoAssignForStatus settles or throws: only the assignee shown may change.
AdvanceAssignSettles(i) ==
  /\ advanceCalls[i].pc = "assign"
  /\ advanceCalls' = [advanceCalls EXCEPT ![i].pc = "returned"]
  /\ UNCHANGED << cmd, mounted, abortRef, loading, loadError, issue, done,
                  transition, toast, pc, op, ti, tiResult, outstanding,
                  runConfirmed, stepRequests, stepLabels, resumeAt,
                  chainConfirmed, runStart, aborted, assignResult, fnCall,
                  fnResult, cachedFieldMap, resolveCalls, catalogRequests >>

ConcNext ==
  \/ LoadSettles
  \/ \E i \in Invocations : AdvanceInvoked(i)
  \/ \E i \in Invocations : AdvanceGateSettles(i)
  \/ \E i \in Invocations : AdvanceFormCompleted(i)
  \/ \E i \in Invocations : AdvanceFormDismissed(i)
  \/ \E i \in Invocations : AdvanceMoveSettles(i)
  \/ \E i \in Invocations : AdvanceAssignSettles(i)

ConcSpec == ConcInit /\ [][ConcNext]_vars
\* ------------------------------------------------------------------------
\* Properties
\* ------------------------------------------------------------------------

Last(seq) == seq[Len(seq)]

\* The stage names of a completedSteps list.
StagesOf(texts) == [i \in 1..Len(texts) |-> texts[i][2]]

StatusesOf(steps) == [i \in 1..Len(steps) |-> steps[i].status]

IsPrefix(s, t) == Len(s) <= Len(t) /\ s = SubSeq(t, 1, Len(s))

\* The stage the chain has reached according to the tracker's confirmations.
ReachedInRun == IF runConfirmed = << >> THEN runStart ELSE Last(runConfirmed)

\* A chain's step is between its first request and the handling of its result.
InChainStep == op.kind = "run" /\ pc \in { "move", "settled" }

\* The stage the chain's current step is aimed at.
ChainStepTarget == getRemainingSteps(op.issueData.status)[op.stepIdx].status

C2_ResumeAtFailedStage ==
  (op.kind = "run" /\ pc = "move") =>
    /\ resumeAt # None => ti.target = resumeAt
    /\ \A i \in 1..Len(chainConfirmed) : chainConfirmed[i] # ti.target

C2_Witness ==
  /\ op.kind = "run" /\ pc = "move" /\ resumeAt # None
  /\ Len(chainConfirmed) > 0 /\ runConfirmed = << >>

\* C3: within one invocation of a chain the stages are requested in the order
\* of the remaining list, stage k+1 only once stages 1..k are confirmed; at
\* most one move request is outstanding; and the handling of a rejected step
\* sends no request.
C3_InOrderOneAtATime ==
  /\ [](/\ outstanding <= 1
        /\ (op.kind = "run" /\ runStart # None) =>
             IsPrefix(runConfirmed, StatusesOf(getRemainingSteps(runStart)))
        /\ (op.kind = "run" /\ pc = "move") =>
             /\ Len(runConfirmed) < Len(getRemainingSteps(runStart))
             /\ ti.target = getRemainingSteps(runStart)[Len(runConfirmed) + 1].status)
  /\ [][(op.kind = "run" /\ pc = "settled" /\ ~tiResult.ok /\ pc' # pc) =>
          (pc' \in { "idle", "form" } /\ outstanding' = 0 /\ ti' = NoTI)]_vars

C3_Witness ==
  /\ op.kind = "run" /\ pc = "move" /\ Len(runConfirmed) = 2
  /\ ti.target = "Done"

\* C4: the local status changes only to a status just fetched or to the stage
\* of the transition the tracker last confirmed to the operation in progress.
C4_StatusFetchedOrConfirmed ==
  [][(issue'.status # issue.status /\ issue' # NoIssue) =>
       \/ loading /\ ~loading'
       \/ issue'.status = op.lastConfirmed]_vars

\* C5: once a chain has left its loop through the abort check, the status it
\* reports is the stage its last confirmed step reached, and the phase is done
\* only if Done was confirmed.
C5_AbortReportsReachedStage ==
  aborted =>
    /\ issue.status = ReachedInRun
    /\ transition.phase = "done" => ReachedInRun = "Done"

\* C6: a move request made with the resolver's label is the second and last
\* of its transitionIssue call: when it is answered the call settles, with
\* success or with that request's own rejection.
C6_RetryOnceThenFinal ==
  /\ [](ti.phase = "retry" =>
          /\ stepRequests = 2
          /\ stepLabels = << Lbl("", ti.target), ti.label >>
          /\ findMatchingTransition(ti.target,
                                    parseAvailableTransitions(ti.primaryError)) = ti.label)
  /\ [][(ti.phase = "retry" /\ ti' # ti) =>
          /\ pc' = "settled" /\ ti' = NoTI /\ outstanding' = 0
          /\ stepRequests' = 2
          /\ ~tiResult'.ok => tiResult'.msg \in LaterRejections]_vars

C6_Witness ==
  /\ pc = "settled" /\ ~tiResult.ok /\ stepRequests = 2
  /\ stepLabels[2] = Lbl("Return to ", "Doing")

\* C7: with no resolver label, the alias labels of the target stage are tried
\* in table order; the first accepted one settles the call with success, and
\* when the last is rejected the call throws the primary request's rejection.
C7_AliasesThenPrimaryError ==
  /\ [](ti.phase = "fallback" =>
          /\ findMatchingTransition(ti.target,
                                    parseAvailableTransitions(ti.primaryError)) = NoLabel
          /\ ti.fbIdx \in 1..Len(FallbacksOf(ti.target))
          /\ Len(stepLabels) = ti.fbIdx + 1
          /\ \A i \in 1..ti.fbIdx :
               stepLabels[i + 1] = Lbl("", STATUS_FALLBACKS[ToUpperCase(ti.target)][i]))
  /\ [][(ti.phase = "fallback" /\ ti' # ti) =>
          \/ ti'.phase = "fallback" /\ ti'.fbIdx = ti.fbIdx + 1 /\ pc' = "move"
          \/ /\ pc' = "settled" /\ ti' = NoTI
             /\ \/ tiResult'.ok
                \/ /\ ti.fbIdx = Len(FallbacksOf(ti.target))
                   /\ tiResult'.msg = ti.primaryError]_vars

C7_Witness ==
  /\ pc = "settled" /\ ~tiResult.ok /\ stepRequests = 2
  /\ stepLabels = << Lbl("", "Waiting"), Lbl("", "TO DO") >>
  /\ tiResult.msg = Msg(FALSE, << >>, TRUE, << "" >>)

\* C8 as stated: each step of a chain sends at most one move request.
C8_OneRequestPerStep ==
  InChainStep => stepRequests <= 1

\* C8: each step of a chain is one transitionIssue call: it sends the primary
\* request and at most one more, made with the label the resolver picked from
\* the primary rejection (no chain stage has an alias); a rejection thrown by
\* the call ends the chain's invocation.
C8_OneCallPerStep ==
  /\ [](InChainStep =>
          /\ stepRequests \in 1..2
          /\ stepLabels[1] = Lbl("", ChainStepTarget)
          /\ FallbacksOf(ChainStepTarget) = << >>
          /\ stepRequests = 2 =>
               /\ stepLabels[2] # NoLabel
               /\ findMatchingTransition(ChainStepTarget, << stepLabels[2] >>)
                    = stepLabels[2])
  /\ [][(InChainStep /\ pc = "settled" /\ ~tiResult.ok /\ pc' # pc) =>
          pc' \in { "idle", "form" }]_vars

C8_Witness ==
  /\ InChainStep /\ pc = "settled" /\ tiResult.ok /\ stepRequests = 2
  /\ Len(runConfirmed) = 2

\* C9: while a move request into Done is outstanding for an issue that is not
\* of a documentation type, autoFillDevDates has settled (returned or thrown)
\* within the operation that sent it.
C9_FillerBeforeDone ==
  (pc = "move" /\ ti.target = "Done" /\ ~isDocType(op.issueData.type)) =>
    op.fillerDone

C9_Witness ==
  /\ cmd = "advance" /\ pc = "move" /\ ti.target = "Done"
  /\ op.issueData.type = "Task" /\ op.fillerDone

C11_AssignerFailureSwallowed ==
  /\ []((pc = "assign" /\ op.kind \in { "advance", "regress" }) =>
          /\ issue.status = op.lastConfirmed
          /\ op.assignFor = op.lastConfirmed)
  /\ [][(pc = "assign" /\ pc' # pc) =>
          /\ issue' = issue
          /\ toast'.style # "failure"
          /\ pc' # "form"
          /\ op.kind = "run" => (pc' = "sleep" /\ op' = op)]_vars
  /\ [][(cmd = "board" /\ pc = "sleep" /\ assignResult = "threw" /\ pc' # pc) =>
          LET remaining == getRemainingSteps(op.issueData.status)
          IN  \/ /\ op.stepIdx < Len(remaining)
                 /\ pc' = "move"
                 /\ ti'.target = remaining[op.stepIdx + 1].status
              \/ /\ op.stepIdx = Len(remaining)
                 /\ issue' = NoIssue
                 /\ toast'.title = "is Done"]_vars

C11_Witness ==
  /\ cmd = "board" /\ op.kind = "run" /\ pc = "move"
  /\ assignResult = "threw" /\ op.assignFor = "Testing"
  /\ ti.target = "2ND REVIEW"

\* C12 as stated: whenever a handler has taken the tracker's confirmation of
\* a transition, its next step is the call autoAssignForStatus(key, stage)
\* for the stage just confirmed.
C12_AssignerAfterEveryConfirmation ==
  [][(pc = "settled" /\ tiResult.ok /\ pc' # pc) =>
       (pc' = "assign" /\ op'.assignFor = op.lastConfirmed)]_vars

\* A field read by getIssueRawFields holds a value (a non-empty string).
HoldsValue(raw, n) == raw[n] # None /\ raw[n] # ""

\* The planned counterpart of a managed target field.
PlannedOf(n) ==
  IF n = "Dev Start Date" THEN "Planned Dev Start Date" ELSE "Planned Dev Due Date"

TargetFields == { "Dev Start Date", "Dev Due Date" }

\* C13: autoFillDevDates never overwrites: a target field that holds a value
\* is in neither filled nor stillMissing and in no write; when both targets
\* hold a value no write is issued, whatever the planned fields hold.
C13_NeverOverwrites ==
  fnResult.fn = "autoFillDevDates" =>
    /\ \A n \in TargetFields :
         HoldsValue(fnCall.raw, n) =>
           /\ n \notin FieldSet(fnResult.filled)
           /\ n \notin FieldSet(fnResult.stillMissing)
           /\ \A i \in 1..Len(fnResult.writes) : n \notin DOMAIN fnResult.writes[i]
    /\ (\A n \in TargetFields : HoldsValue(fnCall.raw, n)) => fnResult.writes = << >>

C13_Witness ==
  /\ fnResult.fn = "autoFillDevDates"
  /\ fnCall.raw["Dev Start Date"] = "2024-01-01"
  /\ fnCall.raw["Planned Dev Start Date"] = "2024-02-02"
  /\ fnCall.raw["Dev Due Date"] = "2024-01-01"
  /\ fnResult.filled = << >> /\ fnResult.stillMissing = << >>
  /\ fnResult.writes = << >>

\* C14: autoFillDevDates reports in filled exactly the targets that hold no
\* value and whose planned counterpart holds one (start before due), and,
\* when there is such a target, issues exactly one write that maps exactly
\* those names to their planned values; otherwise it issues no write.
C14_FillsFromPlanned ==
  fnResult.fn = "autoFillDevDates" =>
    LET raw    == fnCall.raw
        toFill == { n \in TargetFields :
                      ~HoldsValue(raw, n) /\ HoldsValue(raw, PlannedOf(n)) }
    IN  /\ FieldSet(fnResult.filled) = toFill
        /\ Len(fnResult.filled) = Cardinality(toFill)
        /\ Len(fnResult.filled) = 2 => fnResult.filled[1] = "Dev Start Date"
        /\ IF toFill = {}
           THEN fnResult.writes = << >>
           ELSE /\ Len(fnResult.writes) = 1
                /\ DOMAIN fnResult.writes[1] = toFill
                /\ \A n \in toFill : fnResult.writes[1][n] = raw[PlannedOf(n)]

C14_Witness ==
  /\ fnResult.fn = "autoFillDevDates"
  /\ fnCall.raw["Dev Start Date"] = None
  /\ fnCall.raw["Planned Dev Start Date"] = "2024-02-02"
  /\ fnResult.filled = << "Dev Start Date" >>
  /\ Len(fnResult.writes) = 1
  /\ DOMAIN fnResult.writes[1] = { "Dev Start Date" }
  /\ fnResult.writes[1]["Dev Start Date"] = "2024-02-02"

\* The positions of `available` whose label, upper-cased, is the text `want`.
PositionsEqual(available, want) ==
  { i \in 1..Len(available) : LabelUpper(available[i]) = want }

\* The positions whose label ends with the target's name without being it.
PositionsSuffix(available, target) ==
  { i \in 1..Len(available) :
      /\ ToUpperCase(available[i].name) = target
      /\ LabelUpper(available[i]) # Lbl("", target) }

Least(S) == CHOOSE i \in S : \A j \in S : i <= j

\* C15: findMatchingTransition returns, comparing in upper case, the first
\* label of the list equal to the target; if there is none, the first equal
\* to "BACK TO " + target; if there is none, the first that ends with the
\* target and is not the target; otherwise null.  A label returned is an
\* element of the list.
C15_ResolverPrecedence ==
  fnResult.fn = "findMatchingTransition" =>
    LET available == fnCall.available
        target    == ToUpperCase(fnCall.target)
        exact     == PositionsEqual(available, Lbl("", target))
        backTo    == PositionsEqual(available, Lbl("BACK TO ", target))
        suffix    == PositionsSuffix(available, target)
    IN  /\ fnResult.label =
             IF exact # {} THEN available[Least(exact)]
             ELSE IF backTo # {} THEN available[Least(backTo)]
             ELSE IF suffix # {} THEN available[Least(suffix)]
             ELSE NoLabel
        /\ fnResult.label # NoLabel => fnResult.label \in FieldSet(available)
        /\ (fnCall.target = "Doing" /\ available = << Lbl("", "Done") >>) =>
             fnResult.label = NoLabel
        /\ (fnCall.target = "Doing"
            /\ available = << Lbl("Return to ", "Doing"), Lbl("", "Cancel") >>) =>
             fnResult.label = Lbl("Return to ", "Doing")

C15_Witness ==
  /\ fnResult.fn = "findMatchingTransition"
  /\ fnCall.target = "Doing"
  /\ fnCall.available = << Lbl("Return to ", "Doing"), Lbl("Back to ", "Doing") >>
  /\ fnResult.label = Lbl("Back to ", "Doing")

\* C16: a primary rejection whose text lacks "Available states for issue"
\* yields an empty candidate list and no resolver label, so no retry is made:
\* transitionIssue goes on to the first alias of the target when it has one,
\* and otherwise, or once the last alias is rejected, throws the primary
\* rejection itself.
C16_NoMarkerNoResolver ==
  /\ []((ti.phase \in { "retry", "fallback" } /\ ~ti.primaryError.marker) =>
          /\ parseAvailableTransitions(ti.primaryError) = << >>
          /\ findMatchingTransition(ti.target, << >>) = NoLabel
          /\ ti.phase = "fallback"
          /\ FallbacksOf(ti.target) # << >>)
  /\ [][(ti.phase = "primary" /\ ti' # ti /\ ti'.phase = "fallback") =>
          /\ ti'.fbIdx = 1
          /\ ti'.label = Lbl("", FallbacksOf(ti.target)[1])
          /\ pc' = "move"]_vars
  /\ [][(ti.phase = "primary" /\ pc' = "settled" /\ ~tiResult'.ok
         /\ ~tiResult'.msg.marker) =>
          /\ FallbacksOf(ti.target) = << >>
          /\ stepRequests' = 1]_vars
  /\ [][(ti.phase = "fallback" /\ ~ti.primaryError.marker
         /\ pc' = "settled" /\ ~tiResult'.ok) =>
          tiResult'.msg = ti.primaryError]_vars

C16_Witness ==
  /\ pc = "settled" /\ ~tiResult.ok /\ tiResult.msg = MsgOther
  /\ stepLabels = << Lbl("", "Waiting"), Lbl("", "TO DO") >>

\* The local status is no stage of the workflow the command uses.
Unrecognized ==
  /\ issue # NoIssue
  /\ IF cmd = "advance" THEN getWorkflowIndexFor(issue.status, issue.type) = -1
     ELSE getWorkflowIndex(issue.status) = -1

\* C17 as stated: with an unrecognized local status no operation sends a move
\* request, and what an operation then reports is not that the issue is
\* already Done or already at the final stage.
C17_UnrecognizedStatusSurfaced ==
  /\ [][(Unrecognized /\ pc = "idle") => outstanding' = 0]_vars
  /\ [][(Unrecognized /\ pc = "idle" /\ toast' # toast) =>
          toast'.title \notin { "is already Done", "Already at final status" }]_vars

\* The 0-based positions of the stages whose normalized name is that of s.
KnownAt(s) ==
  { i \in 0..(Len(WORKFLOW) - 1) :
      normalizeStatus(WORKFLOW[i + 1].status) = normalizeStatus(s) }

\* C18: for every status string the lookups return a value: the index is -1
\* exactly when no stage has the status's normalized name and is that stage's
\* position otherwise; next is null iff the status is unrecognized or the last
\* stage, else the stage at index + 1; previous is null iff unrecognized or
\* the first stage, else the stage at index - 1; remaining is empty when
\* unrecognized or last, else the stages from index + 1 through Done in order.
C18_LookupSentinels ==
  fnResult.fn = "lookups" =>
    LET s    == fnCall.status
        r    == fnResult
        last == Len(WORKFLOW) - 1
    IN  /\ (r.idx = -1) <=> (KnownAt(s) = {})
        /\ KnownAt(s) # {} => KnownAt(s) = { r.idx }
        /\ (r.next = NoStep) <=> (KnownAt(s) = {} \/ r.idx = last)
        /\ r.next # NoStep => r.next = WORKFLOW[r.idx + 2]
        /\ (r.prev = NoStep) <=> (KnownAt(s) = {} \/ r.idx = 0)
        /\ r.prev # NoStep => r.prev = WORKFLOW[r.idx]
        /\ (KnownAt(s) = {} \/ r.idx = last) => r.remaining = << >>
        /\ (KnownAt(s) # {} /\ r.idx < last) =>
             /\ Len(r.remaining) = last - r.idx
             /\ \A k \in 1..Len(r.remaining) : r.remaining[k] = WORKFLOW[r.idx + 1 + k]
             /\ r.remaining[Len(r.remaining)].status = "Done"

C18_Witness ==
  /\ fnResult.fn = "lookups" /\ fnCall.status = " To Do "
  /\ fnResult.idx = 0 /\ fnResult.prev = NoStep
  /\ fnResult.next.status = "Doing" /\ Len(fnResult.remaining) = 10

\* C19: normalizeStatus applied to a result of normalizeStatus returns it
\* unchanged.
C19_NormalizeIdempotent ==
  fnResult.fn = "normalizeStatus" =>
    normalizeStatus(fnResult.norm) = fnResult.norm

C19_Witness ==
  /\ fnResult.fn = "normalizeStatus" /\ fnCall.status = " To Do "
  /\ fnResult.norm = "WAITING"

\* C20: for a status whose next stage exists, the next stage of the previous
\* stage of that next stage is that next stage again.
C20_NextPreviousNext ==
  (fnResult.fn = "roundTrip" /\ fnResult.next # NoStep) =>
    /\ fnResult.prev # NoStep
    /\ fnResult.round = fnResult.next

C20_Witness ==
  /\ fnResult.fn = "roundTrip" /\ fnCall.status = "Delivering"
  /\ fnResult.next.status = "Done" /\ fnResult.prev.status = "Delivering"
  /\ fnResult.round.status = "Done"

\* C21 as stated: for every status string the length of getRemainingSteps is
\* WORKFLOW.length - getWorkflowIndex - 1.
C21_RemainingLengthAnyStatus ==
  fnResult.fn = "lookups" =>
    Len(fnResult.remaining) = Len(WORKFLOW) - fnResult.idx - 1

\* C21: for every status that normalizes to a stage of the workflow the
\* length of getRemainingSteps is WORKFLOW.length - getWorkflowIndex - 1; for
\* "Done" it is empty; for a status that is no stage the index is -1 and the
\* list is empty.
C21_RemainingLength ==
  fnResult.fn = "lookups" =>
    /\ fnResult.idx # -1 =>
         Len(fnResult.remaining) = Len(WORKFLOW) - fnResult.idx - 1
    /\ fnResult.idx = -1 => fnResult.remaining = << >>
    /\ fnCall.status = "Done" => fnResult.remaining = << >>

C21_Witness ==
  /\ fnResult.fn = "lookups" /\ fnCall.status = "Staging"
  /\ fnResult.idx = 7 /\ Len(fnResult.remaining) = 3

\* The spellings of the legacy status among the status strings of the model.
ToDoSpellings == { "TO DO", "To Do", "to do", " To Do ", " TO DO " }

\* C22: every spelling of "TO DO" (any letter case, padded or not) normalizes
\* to what "Waiting" normalizes to, and getWorkflowIndex, getNextStatus,
\* getPreviousStatus and getRemainingSteps return for it what they return for
\* "Waiting".
C22_AliasEquivalence ==
  fnCall.status \in ToDoSpellings =>
    /\ fnResult.fn = "normalizeStatus" =>
         fnResult.norm = normalizeStatus("Waiting")
    /\ fnResult.fn = "lookups" =>
         /\ fnResult.idx = getWorkflowIndex("Waiting")
         /\ fnResult.idx = 0
         /\ fnResult.next = getNextStatus("Waiting")
         /\ fnResult.prev = getPreviousStatus("Waiting")
         /\ fnResult.remaining = getRemainingSteps("Waiting")

C22_Witness ==
  /\ fnResult.fn = "lookups" /\ fnCall.status = "to do"
  /\ fnResult.idx = 0 /\ fnResult.next.status = "Doing"
  /\ Len(fnResult.remaining) = 10

\* C23 as stated: autoFillDevDates is never in progress (neither its read
\* nor its write) within an operation on an issue of a documentation type.
C23_ExemptSkipsFiller ==
  pc \in { "autofillRead", "autofillWrite" } => ~isDocType(op.issueData.type)

\* The stage names of the workflow selected by an issue type.
StageNamesFor(type) ==
  { getWorkflowForType(type)[i].status : i \in 1..Len(getWorkflowForType(type)) }

\* C29 as stated: a chain requests only stages of the workflow selected by
\* the issue's type, so never a stage that the type's workflow skips.
C29_ChainFollowsCategory ==
  (op.kind = "run" /\ pc = "move") =>
    ti.target \in StageNamesFor(op.issueData.type)

\* ------------------------------------------------------------------------
\* C24, C25: autoAssignForStatus
\* ------------------------------------------------------------------------

\* The stages that have a role: Testing, 1ST REVIEW, 2ND REVIEW.
RoleStages == { "TESTING", "1ST REVIEW", "2ND REVIEW" }

\* The result of a call of autoAssignForStatus is being looked at.
AssignApplied == fnResult.fn = "autoAssignForStatus"

\* The calls of the given name among the requests the call made.
CallsNamed(calls, name) == { i \in 1..Len(calls) : calls[i].name = name }

\* C24: autoAssignForStatus for a target stage that has no role returns
\* assigned = false and makes no call at all: it reads no field, searches no
\* identity, assigns nobody, and does not throw.
C24_NoRoleNoEffect ==
  (AssignApplied /\ normalizeStatus(fnCall.target) \notin RoleStages)
    => /\ ~fnResult.assign.assigned
       /\ ~fnResult.assign.threw
       /\ fnResult.assign.calls = << >>

\* A call for Doing, which has no role, while the role field holds a user and
\* a default is configured and found.
C24_Witness ==
  /\ AssignApplied /\ fnCall.target = "Doing"
  /\ fnCall.env.fieldId # None /\ fnCall.env.fieldUser # None
  /\ fnCall.env.pref # "" /\ Len(fnCall.env.found) = 2
  /\ fnCall.env.fail = None
  /\ ~fnResult.assign.assigned

\* The user getIssueFieldUser returns: the role field's user when the field
\* name resolves to an id, else none.
FieldUserRead(env) == IF env.fieldId = None THEN None ELSE env.fieldUser

\* C25: for a stage that has a role, when no request is rejected: a user held
\* by the issue's role field is assigned and the configured default is neither
\* looked up nor searched; without one, the configured default is searched and
\* the first user found is assigned; with no field user and the default unset
\* or not found, assigned = false and no assign call is made.  On every path,
\* rejected requests included, at most one assign call is made and the default
\* is not consulted once the field held a user.
C25_RoleResolutionOrder ==
  (AssignApplied /\ normalizeStatus(fnCall.target) \in RoleStages) =>
    LET env == fnCall.env
        r   == fnResult.assign
        assigns == CallsNamed(r.calls, "assignIssue")
    IN  /\ Cardinality(assigns) <= 1
        /\ FieldUserRead(env) # None =>
             /\ CallsNamed(r.calls, "getRoleAssignee") = {}
             /\ CallsNamed(r.calls, "searchJiraUser") = {}
        /\ (~r.threw /\ FieldUserRead(env) # None) =>
             /\ r.assigned /\ r.user = env.fieldUser
             /\ \A i \in assigns : r.calls[i].arg = env.fieldUser
             /\ assigns # {}
        /\ (~r.threw /\ FieldUserRead(env) = None /\ env.pref # "" /\ Len(env.found) > 0) =>
             /\ r.assigned /\ r.user = env.found[1]
             /\ CallsNamed(r.calls, "searchJiraUser") # {}
             /\ \A i \in assigns : r.calls[i].arg = env.found[1]
             /\ assigns # {}
        /\ (~r.threw /\ FieldUserRead(env) = None /\ (env.pref = "" \/ Len(env.found) = 0)) =>
             /\ ~r.assigned /\ assigns = {}
        /\ (env.pref = "" ) => CallsNamed(r.calls, "searchJiraUser") = {}

\* A call for 1ST REVIEW with an empty role field whose default is found
\* twice in the directory: the first of the two is assigned.
C25_Witness ==
  /\ AssignApplied /\ normalizeStatus(fnCall.target) = "1ST REVIEW"
  /\ fnCall.env.fieldId # None /\ fnCall.env.fieldUser = None
  /\ fnCall.env.pref # "" /\ Len(fnCall.env.found) = 2
  /\ fnCall.env.fail = None
  /\ fnResult.assign.assigned /\ fnResult.assign.user = "userA"
  /\ Len(fnResult.assign.calls) = 5

\* ------------------------------------------------------------------------
\* C26: classification order of a rejection in single-step advance
\* ------------------------------------------------------------------------

\* C26: in the single-step advance of the advance command, a request made
\* with a resolver-derived label or an alias label follows only a primary
\* rejection that does not match the missing-field pattern; a rejection that
\* matches it is never retried.
C26_MissingFieldBeforeRetry ==
  (cmd = "advance" /\ op.kind = "advance" /\ pc = "move"
     /\ ti.phase \in { "retry", "fallback" })
    => ~RejectionSuspends(ti.primaryError)

\* ------------------------------------------------------------------------
\* C27: a failing filler does not stop the gated action
\* ------------------------------------------------------------------------

\* The filler is at work for the gate.
FillerAtWork == pc \in { "autofillRead", "autofillWrite" }

\* C27: when autoFillDevDates fails (its read or its write), a failure toast
\* "Auto-fill failed, continuing" is shown and the gate goes on to its action;
\* the step that leaves the gate starts the action, for the first time on the
\* failure path; and no invocation of the gate starts its action twice.
C27_FillerFailureContinues ==
  /\ [](op.gateRuns <= 1)
  /\ []((pc = "gated" /\ op.gateFailed) => op.gateRuns = 0)
  /\ [][(FillerAtWork /\ pc' # pc /\ pc' \notin { "autofillWrite", "form" }
           /\ toast'.title \notin { "Auto-filled dates", "Checking required fields" })
          => /\ toast' = Toast("failure", "Auto-fill failed, continuing", None)
             /\ pc' = "gated" /\ op'.gateFailed /\ op'.gateRuns = 0]_vars
  /\ [][(pc = "gated" /\ pc' # pc)
          => /\ pc' \in { "move", "loopToast" }
             /\ op'.gateRuns = op.gateRuns + 1
             /\ op'.gateFailed = op.gateFailed]_vars

\* The gate's action has been started once after the filler failed, in the
\* run of the board.
C27_Witness ==
  /\ cmd = "board" /\ op.kind = "run" /\ pc = "move"
  /\ op.gateFailed /\ op.gateRuns = 1
  /\ ti.phase = "primary"

\* ------------------------------------------------------------------------
\* C28: a missing-field rejection of a regress
\* ------------------------------------------------------------------------

\* C28: in every command that offers regress, a regress whose transition is
\* rejected with a missing-field message suspends for field input (the form
\* opens, to re-attempt the same regress on completion).
C28_RegressSuspendsLikeAdvance ==
  [][(op.kind = "regress" /\ pc = "settled" /\ ~tiResult.ok
        /\ RejectionSuspends(tiResult.msg) /\ pc' # pc)
       => (pc' = "form" /\ op'.kind = "regress"
             /\ op'.missingFields = parseMissingFieldsFromError(tiResult.msg))]_vars

\* ------------------------------------------------------------------------
\* C30: the field catalog is requested at most once
\* ------------------------------------------------------------------------

\* C30: over any interleaving of resolveFieldId calls, the tracker's field
\* catalog is requested at most once, and a name of the built-in table is
\* answered without a request.
C30_CatalogRequestedOnce ==
  /\ catalogRequests <= 1
  /\ \A c \in Callers :
       resolveCalls[c].pc = "fetching" =>
         resolveCalls[c].name \notin DOMAIN FIELD_NAME_TO_ID

\* ------------------------------------------------------------------------
\* C31: setIssueCustomFields resolves every name before it writes
\* ------------------------------------------------------------------------

SetFieldsApplied == fnResult.fn = "setIssueCustomFields"

\* The names of the request that resolve to no id.
Unresolvable(names, listed) ==
  { names[i] : i \in 1..Len(names) } \ (DOMAIN FIELD_NAME_TO_ID \cup listed)

\* C31: when a field name of the request resolves to no id,
\* setIssueCustomFields throws without having sent a write request; when
\* every name resolves, it sends one write request carrying the ids of all
\* the requested fields.  No request carries a proper subset of them.
C31_AllOrNothing ==
  SetFieldsApplied =>
    LET r == fnResult.setFields
        names == fnCall.fields
    IN  /\ Unresolvable(names, fnCall.listed) # {} => (r.threw /\ r.puts = << >>)
        /\ Unresolvable(names, fnCall.listed) = {} =>
              /\ Len(r.puts) = 1
              /\ Cardinality(r.puts[1]) = Len(names)
              /\ r.threw = ~fnCall.putOk
        /\ \A k \in 1..Len(r.puts) : Cardinality(r.puts[k]) = Len(names)

\* A request for a built-in field first and an unlisted one second, which
\* throws with nothing written.
C31_Witness ==
  /\ SetFieldsApplied
  /\ fnCall.fields = << "Dev Start Date", "QA" >> /\ fnCall.listed = { "Resolution" }
  /\ fnResult.setFields.threw /\ fnResult.setFields.puts = << >>
  /\ Len(fnResult.setFields.resolved) = 2

\* ------------------------------------------------------------------------
\* C32: the form resumes the suspended operation only after its write
\* ------------------------------------------------------------------------

\* The form's write was accepted and onComplete is about to run.
ResumePending ==
  \/ pc = "resume"
  \/ pc = "gated" /\ op.onComplete = "gated"

FieldsUpdated == Toast("success", "Fields updated", None)

PhaseEdge(from, to) == transition.phase = from /\ transition'.phase = to

\* C33: the phase of the MoveToDone run only moves idle -> running,
\* running -> done, running -> error and error -> running; and whenever the
\* transition loop has returned and no move request is in flight (a form
\* dismissed without submitting included), the phase is not running.
C33_PhaseEdgesAndNotStuckRunning ==
  /\ [][(cmd = "movetodone" /\ transition'.phase # transition.phase)
          => \/ PhaseEdge("idle", "running")
             \/ PhaseEdge("running", "done")
             \/ PhaseEdge("running", "error")
             \/ PhaseEdge("error", "running")]_vars
  /\ []((cmd = "movetodone" /\ pc = "idle" /\ outstanding = 0)
          => transition.phase # "running")

\* ------------------------------------------------------------------------
\* C34: completedSteps of the running phase
\* ------------------------------------------------------------------------

\* The stages of the running phase's completedSteps, and the stages that
\* remained when this invocation of the loop started.
CompletedShown == StagesOf(transition.completedSteps)
RemainingAtStart == StatusesOf(getRemainingSteps(runStart))

\* What the running phase shows is well-formed: a prefix of the remaining
\* list of this invocation and of the stages confirmed in it, no longer than
\* totalSteps, which is the length of that list.
CompletedWellFormed ==
  /\ IsPrefix(CompletedShown, RemainingAtStart)
  /\ IsPrefix(CompletedShown, runConfirmed)
  /\ 0 <= Len(CompletedShown) /\ Len(CompletedShown) <= transition.totalSteps
  /\ transition.totalSteps = Len(RemainingAtStart)

\* A run of MoveToDone is in progress (suspended for field input included)
\* and shows the running phase; the instant between the tracker's answer and
\* the loop's continuation is left out.
RunShowsRunning ==
  /\ cmd = "movetodone" /\ op.kind = "run" /\ transition.phase = "running"
  /\ pc # "settled"

\* C34 as stated: in every running state of MoveToDone, completedSteps is a
\* prefix of the remaining list computed at the start of the invocation, its
\* length is the number of transitions confirmed in the invocation, and it
\* lies between 0 and totalSteps.
C34_CompletedCountsConfirmed ==
  RunShowsRunning =>
    /\ CompletedWellFormed
    /\ Len(CompletedShown) = Len(runConfirmed)

\* C34, amended: completedSteps of the running phase is such a prefix within
\* those bounds, and its length is the number of transitions confirmed when
\* the current step began: equal to the number confirmed so far while a step
\* is announced or requested, and one short of it from the confirmation of a
\* step until the next step begins (the pause between two steps).
C34_CompletedLagsByOne ==
  RunShowsRunning =>
    /\ CompletedWellFormed
    /\ Len(runConfirmed) - Len(CompletedShown) \in { 0, 1 }
    /\ pc \in { "loopToast", "move", "form", "formWrite", "resume" }
         => Len(CompletedShown) = Len(runConfirmed)
    /\ pc = "sleep" => Len(CompletedShown) = Len(runConfirmed) - 1

\* The pause after the second confirmed stage of three:
\* the running phase still shows one completed stage.
C34_Witness ==
  /\ RunShowsRunning /\ pc = "sleep"
  /\ Len(runConfirmed) = 2 /\ Len(transition.completedSteps) = 1
  /\ transition.totalSteps = 3

\* ------------------------------------------------------------------------
\* C35: a run-to-completion stops
\* ------------------------------------------------------------------------

\* An invocation of the chain is at work: between its first step's
\* announcement and its loop's exit.
RunAtWork ==
  op.kind = "run" /\ pc \in { "loopToast", "move", "settled", "assign", "sleep" }

\* The invocation has left its loop: it returned, or it is suspended in the
\* form.
RunStopped == pc \in { "idle", "form" }

\* The ways the invocation that stops in this step has left its loop: all
\* steps confirmed, the abort check, a rejection naming no missing field, a
\* rejection that suspends for field input.
StopsDone ==
  IF cmd = "movetodone" THEN transition'.phase = "done" /\ ~aborted'
  ELSE issue' = NoIssue /\ toast' = Toast("success", "is Done", None)

StopsAborted == cmd = "movetodone" /\ aborted'

StopsInError ==
  IF cmd = "movetodone" THEN transition'.phase = "error"
  ELSE pc' = "idle" /\ toast'.style = "failure" /\ toast'.title = "Failed at"

StopsSuspended == pc' = "form"

ExactlyOneOf(a, b, c, d) ==
  \/ a /\ ~b /\ ~c /\ ~d
  \/ ~a /\ b /\ ~c /\ ~d
  \/ ~a /\ ~b /\ c /\ ~d
  \/ ~a /\ ~b /\ ~c /\ d

\* A step of a chain's invocation: when it stops the invocation it does so in
\* exactly one way; when it makes a transitionIssue call the call is for the
\* first stage of the invocation's remaining list not yet confirmed; when it
\* handles a rejected call it stops the invocation with no request sent.
ChainStepBounded ==
  /\ (RunAtWork /\ RunStopped')
       => ExactlyOneOf(StopsDone, StopsAborted, StopsInError, StopsSuspended)
  /\ (op'.kind = "run" /\ pc' = "move" /\ pc # "move")
       => /\ Len(runConfirmed') < Len(RemainingAtStart')
          /\ ti'.target = RemainingAtStart'[Len(runConfirmed') + 1]
          /\ op'.stepIdx = Len(runConfirmed') + 1
  /\ (RunAtWork /\ pc = "settled" /\ ~tiResult.ok /\ pc' # pc)
       => (RunStopped' /\ outstanding' = 0 /\ ti' = NoTI)

\* C35: given that every call the chain awaits settles, an invocation of the
\* chain at work stops; it stops in exactly one way (done, aborted, error, or
\* suspended for field input); every transitionIssue call it makes is for the
\* first stage of its remaining list not yet confirmed, so no stage is called
\* twice; and after a rejected call it stops without another request.
C35_RunStops ==
  /\ RunAtWork ~> RunStopped
  /\ [][ChainStepBounded]_vars

\* The board's chain stopped by a rejection after two confirmed stages.
C35_Witness ==
  /\ cmd = "board" /\ pc = "idle" /\ Len(runConfirmed) = 2
  /\ toast = Toast("failure", "Failed at", "Done") /\ resumeAt = "Done"

\* ------------------------------------------------------------------------
\* C36: the done indicator of the advance command
\* ------------------------------------------------------------------------

\* C36: in the advance command, done is true only while the locally recorded
\* status is Done.
C36_DoneImpliesStatusDone ==
  (cmd = "advance" /\ done) => issue.status = "Done"

\* ------------------------------------------------------------------------
\* C37: the result of autoFillDevDates partitions the target fields
\* ------------------------------------------------------------------------

\* The classes a target field falls into after a call: it held a value, it
\* was filled, it is still missing.
ClassesOf(n) ==
  { k \in { "had", "filled", "stillMissing" } :
      CASE k = "had"    -> HoldsValue(fnCall.raw, n)
        [] k = "filled" -> n \in FieldSet(fnResult.filled)
        [] OTHER        -> n \in FieldSet(fnResult.stillMissing) }

\* C37: after autoFillDevDates each of Dev Start Date and Dev Due Date is in
\* exactly one of: held a value, filled, stillMissing; filled and
\* stillMissing are disjoint, name no other field and no field twice; and a
\* target is in stillMissing exactly when neither it nor its planned
\* counterpart holds a value (null and the empty string hold none).
C37_ResultPartitionsTargets ==
  fnResult.fn = "autoFillDevDates" =>
    /\ \A n \in TargetFields : Cardinality(ClassesOf(n)) = 1
    /\ FieldSet(fnResult.filled) \cap FieldSet(fnResult.stillMissing) = {}
    /\ FieldSet(fnResult.filled) \cup FieldSet(fnResult.stillMissing)
         \subseteq TargetFields
    /\ Len(fnResult.filled) = Cardinality(FieldSet(fnResult.filled))
    /\ Len(fnResult.stillMissing) = Cardinality(FieldSet(fnResult.stillMissing))
    /\ \A n \in TargetFields :
         n \in FieldSet(fnResult.stillMissing)
           <=> (~HoldsValue(fnCall.raw, n) /\ ~HoldsValue(fnCall.raw, PlannedOf(n)))

\* One target filled from its planned date, the other still missing because
\* its planned date is the empty string.
C37_Witness ==
  /\ fnResult.fn = "autoFillDevDates"
  /\ fnCall.raw["Dev Start Date"] = None
  /\ fnCall.raw["Planned Dev Start Date"] = "2024-02-02"
  /\ fnCall.raw["Dev Due Date"] = ""
  /\ fnCall.raw["Planned Dev Due Date"] = ""
  /\ fnResult.filled = << "Dev Start Date" >>
  /\ fnResult.stillMissing = << "Dev Due Date" >>

\* ------------------------------------------------------------------------
\* C38: advance invoked again before an earlier invocation has completed
\* ------------------------------------------------------------------------

Invoked(i) == advanceCalls[i].pc # "none"

Confirmed(i) == advanceCalls[i].ok

\* Every invocation was made and has returned.
AllReturned == \A i \in Invocations : advanceCalls[i].pc = "returned"

\* j was invoked while i had not completed.
Overlapping(i, j) == i \in advanceCalls[j].during

SameSnapshot(i, j) == advanceCalls[i].from = advanceCalls[j].from

\* C38 as stated: two overlapping invocations of advance compute the same
\* target from the same snapshot, and once all have settled the recorded
\* status is the successor of the original status; an invocation never has
\* more than one transition request outstanding.
C38_OverlappingAdvancesMoveOneStage ==
  /\ \A i \in Invocations : advanceCalls[i].requests <= 1
  /\ \A i, j \in Invocations :
       Overlapping(i, j) =>
         /\ SameSnapshot(i, j)
         /\ advanceCalls[j].next = advanceCalls[i].next
         /\ AllReturned => issue.status = advanceCalls[i].next.status

\* C38 (amended): every invocation targets the successor of the status it
\* captured and has at most one transition request outstanding, which it has
\* exactly while it awaits the move. Invocations that captured the same
\* snapshot have the same target. An invocation overlapping another captured
\* a different snapshot only if the tracker had confirmed an invocation in
\* between, and then it captured that invocation's target. While the tracker
\* has confirmed no invocation, the recorded status is the status every
\* invocation captured; once it has confirmed some, the recorded status is
\* the target of a confirmed invocation.
C38_OverlappingAdvancesMoveByConfirmation ==
  /\ \A i \in Invocations :
       /\ advanceCalls[i].requests <= 1
       /\ advanceCalls[i].requests = 1 <=> advanceCalls[i].pc = "move"
       /\ Invoked(i) => advanceCalls[i].next = NextOf(advanceCalls[i].from)
  /\ \A i, j \in Invocations :
       /\ Invoked(i) /\ Invoked(j) /\ SameSnapshot(i, j)
            => advanceCalls[i].next = advanceCalls[j].next
       /\ Overlapping(i, j) /\ ~SameSnapshot(i, j)
            => \E k \in Invocations \ { j } :
                 /\ Confirmed(k)
                 /\ advanceCalls[k].next.status = advanceCalls[j].from.status
  /\ IF \E k \in Invocations : Confirmed(k)
     THEN \E k \in Invocations :
            Confirmed(k) /\ issue.status = advanceCalls[k].next.status
     ELSE \A i \in Invocations : Invoked(i) => advanceCalls[i].from = issue

\* Two invocations overlapped on one snapshot, the tracker confirmed both and
\* all have returned: the recorded status is their common target.
C38_Witness ==
  \E i, j \in Invocations :
    /\ Overlapping(i, j) /\ SameSnapshot(i, j) /\ AllReturned
    /\ Confirmed(i) /\ Confirmed(j)
    /\ issue.status = advanceCalls[i].next.status

====
